---------------------------- MODULE Spec2Model ----------------------------
(***************************************************************************)
(* A model of the dyld-shared-cache extractor cmd_extract                  *)
(* (src/src/extract.rs).                                                   *)
(*                                                                         *)
(* Representation.  The header+load-command buffer is a sequence of bytes  *)
(* (0..255), exactly as the code sees it.  A u32 is the sequence of its 4  *)
(* little-endian bytes and a u64 of its 8: reading a field is taking a     *)
(* slice of the buffer, writing one is splicing it back, and the integer   *)
(* operations of the code are carried out digit by digit at the width of   *)
(* the type, so that truncating casts, wrap-around and 32-bit fields       *)
(* behave as they do in the build.  Rust's +, - and * panic on overflow    *)
(* when the build has overflow checks (the dev profile) and wrap when it   *)
(* has not (the release profile); the variable overflow_checks is the      *)
(* profile of the build under test.                                        *)
(***************************************************************************)
EXTENDS Integers, Sequences, FiniteSets, TLC

VARIABLES
    \* the inputs of one call: the build profile, the parsed cache, the
    \* requested image path's presence in it, and the output argument
    overflow_checks, cache, output,
    \* the position in cmd_extract and how the call ended
    pc, outcome, error,
    \* the locals of cmd_extract
    buf, ncmds, segments, linkedit_bounds,
    min_off, max_end, linkedit_extract_size,
    layouts, linkedit_new_fileoff, total_size,
    output_buf, li,
    \* the file system: the output file
    file

vars == <<overflow_checks, cache, output, pc, outcome, error, buf, ncmds, segments,
          linkedit_bounds, min_off, max_end, linkedit_extract_size, layouts,
          linkedit_new_fileoff, total_size, output_buf, li, file>>

--------------------------------------------------------------------------
(* Machine words: little-endian digit sequences.                          *)

\* n as a w-byte little-endian word (n a natural TLC can hold).
RECURSIVE LE(_, _)
LE(n, w) == IF w = 0 THEN << >> ELSE <<n % 256>> \o LE(n \div 256, w - 1)

U32(n) == LE(n, 4)
U64(n) == LE(n, 8)

\* a + b + c digit by digit; the result has one digit more than a: the carry out.
RECURSIVE AddFrom(_, _, _)
AddFrom(a, b, c) ==
    IF a = << >> THEN <<c>>
    ELSE LET s == Head(a) + Head(b) + c
         IN  <<s % 256>> \o AddFrom(Tail(a), Tail(b), s \div 256)

\* a - b - c digit by digit; the last digit of the result is the borrow out.
RECURSIVE SubFrom(_, _, _)
SubFrom(a, b, c) ==
    IF a = << >> THEN <<c>>
    ELSE LET d == Head(a) - Head(b) - c
         IN  <<(d + 256) % 256>> \o SubFrom(Tail(a), Tail(b), IF d < 0 THEN 1 ELSE 0)

\* a * k + c digit by digit (k a small natural); the last digit is the carry out.
RECURSIVE MulFrom(_, _, _)
MulFrom(a, k, c) ==
    IF a = << >> THEN <<c>>
    ELSE LET p == Head(a) * k + c
         IN  <<p % 256>> \o MulFrom(Tail(a), k, p \div 256)

Low(r) == SubSeq(r, 1, Len(r) - 1)
Out(r) == r[Len(r)]

\* The wrapped results and the overflow conditions of unsigned +, -, *.
wrapping_add(a, b) == Low(AddFrom(a, b, 0))
add_overflows(a, b) == Out(AddFrom(a, b, 0)) # 0
wrapping_sub(a, b) == Low(SubFrom(a, b, 0))
sub_overflows(a, b) == Out(SubFrom(a, b, 0)) # 0
wrapping_mul(a, k) == Low(MulFrom(a, k, 0))
mul_overflows(a, k) == Out(MulFrom(a, k, 0)) # 0

\* Unsigned comparison of two words of the same width.
Lt(a, b) == sub_overflows(a, b)
Le(a, b) == ~sub_overflows(b, a)

IsZero(a) == \A i \in 1..Len(a) : a[i] = 0

\* Bitwise and of two bytes, and of two words; bitwise not of a word.
RECURSIVE BitAnd8(_, _, _)
BitAnd8(x, y, n) ==
    IF n = 0 THEN 0
    ELSE (x % 2) * (y % 2) + 2 * BitAnd8(x \div 2, y \div 2, n - 1)

RECURSIVE BitAnd(_, _)
BitAnd(a, b) ==
    IF a = << >> THEN << >>
    ELSE <<BitAnd8(Head(a), Head(b), 8)>> \o BitAnd(Tail(a), Tail(b))

RECURSIVE BitNot(_)
BitNot(a) == IF a = << >> THEN << >> ELSE <<255 - Head(a)>> \o BitNot(Tail(a))

\* The casts of the code: `as u32` keeps the low four bytes, `as u64`
\* zero-extends, `as i64` of a u64 keeps the bits.
as_u32(a) == SubSeq(a, 1, 4)
as_u64(a) == a \o <<0, 0, 0, 0>>

\* `as usize` (usize is 64 bits wide): the value, zero-extended.
as_usize(a) == SubSeq(a \o <<0, 0, 0, 0, 0, 0, 0, 0>>, 1, 8)

\* The number a word stands for.  The model takes it only of words it has
\* found to be at most the length of a buffer, all far below 2^31.
word_value(a) == a[1] + 256 * a[2] + 65536 * a[3] + 16777216 * a[4]

\* A usize used as a position in a buffer of len bytes: its value up to len,
\* and len + 1 for every value beyond; a slice that starts past the end
\* panics wherever past the end it starts.
position(a, len) == IF Le(a, U64(len)) THEN word_value(a) ELSE len + 1

\* Two's-complement sign of an i64, and signed overflow of + and -.
IsNeg(a) == a[Len(a)] >= 128
iadd_overflows(a, b) == IsNeg(a) = IsNeg(b) /\ IsNeg(wrapping_add(a, b)) # IsNeg(a)
isub_overflows(a, b) == IsNeg(a) # IsNeg(b) /\ IsNeg(wrapping_sub(a, b)) # IsNeg(a)

--------------------------------------------------------------------------
(* The Mach-O structures the code reads through pod::from_bytes: each is  *)
(* the sequence of its fields, <<name, width in bytes>>, in file order.   *)

MachHeader64 ==
    << <<"magic", 4>>, <<"cputype", 4>>, <<"cpusubtype", 4>>, <<"filetype", 4>>,
       <<"ncmds", 4>>, <<"sizeofcmds", 4>>, <<"flags", 4>>, <<"reserved", 4>> >>

LoadCommand == << <<"cmd", 4>>, <<"cmdsize", 4>> >>

SegmentCommand64 ==
    << <<"cmd", 4>>, <<"cmdsize", 4>>, <<"segname", 16>>, <<"vmaddr", 8>>,
       <<"vmsize", 8>>, <<"fileoff", 8>>, <<"filesize", 8>>, <<"maxprot", 4>>,
       <<"initprot", 4>>, <<"nsects", 4>>, <<"flags", 4>> >>

Section64 ==
    << <<"sectname", 16>>, <<"segname", 16>>, <<"addr", 8>>, <<"size", 8>>,
       <<"offset", 4>>, <<"align", 4>>, <<"reloff", 4>>, <<"nreloc", 4>>,
       <<"flags", 4>>, <<"reserved1", 4>>, <<"reserved2", 4>>, <<"reserved3", 4>> >>

SymtabCommand ==
    << <<"cmd", 4>>, <<"cmdsize", 4>>, <<"symoff", 4>>, <<"nsyms", 4>>,
       <<"stroff", 4>>, <<"strsize", 4>> >>

DysymtabCommand ==
    << <<"cmd", 4>>, <<"cmdsize", 4>>, <<"ilocalsym", 4>>, <<"nlocalsym", 4>>,
       <<"iextdefsym", 4>>, <<"nextdefsym", 4>>, <<"iundefsym", 4>>,
       <<"nundefsym", 4>>, <<"tocoff", 4>>, <<"ntoc", 4>>, <<"modtaboff", 4>>,
       <<"nmodtab", 4>>, <<"extrefsymoff", 4>>, <<"nextrefsyms", 4>>,
       <<"indirectsymoff", 4>>, <<"nindirectsyms", 4>>, <<"extreloff", 4>>,
       <<"nextrel", 4>>, <<"locreloff", 4>>, <<"nlocrel", 4>> >>

DyldInfoCommand ==
    << <<"cmd", 4>>, <<"cmdsize", 4>>, <<"rebase_off", 4>>, <<"rebase_size", 4>>,
       <<"bind_off", 4>>, <<"bind_size", 4>>, <<"weak_bind_off", 4>>,
       <<"weak_bind_size", 4>>, <<"lazy_bind_off", 4>>, <<"lazy_bind_size", 4>>,
       <<"export_off", 4>>, <<"export_size", 4>> >>

LinkeditDataCommand ==
    << <<"cmd", 4>>, <<"cmdsize", 4>>, <<"dataoff", 4>>, <<"datasize", 4>> >>

\* mem::size_of of a structure, and the offset and width of a field in it.
RECURSIVE size_of(_)
size_of(st) == IF st = << >> THEN 0 ELSE Head(st)[2] + size_of(Tail(st))

RECURSIVE FieldOff(_, _)
FieldOff(st, f) == IF Head(st)[1] = f THEN 0 ELSE Head(st)[2] + FieldOff(Tail(st), f)

RECURSIVE FieldWidth(_, _)
FieldWidth(st, f) == IF Head(st)[1] = f THEN Head(st)[2] ELSE FieldWidth(Tail(st), f)

\* pod::from_bytes::<st>(&b[pos..]) succeeds iff the slice holds the structure.
from_bytes_ok(b, pos, st) == pos <= Len(b) /\ Len(b) - pos >= size_of(st)

\* field.get(LE) and field.set(LE, v) of the structure st lying at b[pos..].
get(b, pos, st, f) ==
    SubSeq(b, pos + FieldOff(st, f) + 1, pos + FieldOff(st, f) + FieldWidth(st, f))

set(b, pos, st, f, v) ==
    LET o == pos + FieldOff(st, f)
    IN  SubSeq(b, 1, o) \o v \o SubSeq(b, o + Len(v) + 1, Len(b))

\* The constants of the Mach-O format the code names (object::macho).
MH_MAGIC_64 == <<207, 250, 237, 254>>
MH_DYLIB_IN_CACHE == <<0, 0, 0, 128>>
LC_SEGMENT_64 == U32(25)
LC_SYMTAB == U32(2)
LC_DYSYMTAB == U32(11)
LC_DYLD_INFO == U32(34)
LC_DYLD_INFO_ONLY == <<34, 0, 0, 128>>
LC_FUNCTION_STARTS == U32(38)
LC_DATA_IN_CODE == U32(41)
LC_CODE_SIGNATURE == U32(29)
LC_DYLD_EXPORTS_TRIE == <<51, 0, 0, 128>>
LC_DYLD_CHAINED_FIXUPS == <<52, 0, 0, 128>>
SECTION_TYPE == U32(255)
S_ZEROFILL == U32(1)
S_GB_ZEROFILL == U32(12)
S_THREAD_LOCAL_ZEROFILL == U32(18)

PAGE_SIZE == U64(16384)

\* "__TEXT" and "__LINKEDIT" as the bytes of the string literals.
TEXT == <<95, 95, 84, 69, 88, 84>>
LINKEDIT == <<95, 95, 76, 73, 78, 75, 69, 68, 73, 84>>

--------------------------------------------------------------------------
(* The pure helpers of extract.rs.                                        *)

\* An align_to that does not round.
align_to_identity(offset, alignment) == [panic |-> FALSE, val |-> offset]

\* An align_to that always moves on to the next boundary.
align_to_next_page(offset, alignment) ==
    LET m == wrapping_sub(alignment, U64(1))
    IN  [panic |-> overflow_checks /\ add_overflows(BitAnd(offset, BitNot(m)), alignment),
         val |-> wrapping_add(BitAnd(offset, BitNot(m)), alignment)]

\* (offset + alignment - 1) & !(alignment - 1) on u64.  The result is
\* [panic, val]: an overflowing + panics in a build with overflow checks.
align_to(offset, alignment) ==
    LET s1 == wrapping_add(offset, alignment)
        s2 == wrapping_sub(s1, U64(1))
        m  == wrapping_sub(alignment, U64(1))
    IN  [panic |-> overflow_checks /\
                   (add_overflows(offset, alignment) \/ sub_overflows(s1, U64(1))
                    \/ sub_overflows(alignment, U64(1))),
         val |-> BitAnd(s2, BitNot(m))]

\* std::str::from_utf8 succeeds on well-formed UTF-8 only.
RECURSIVE utf8_valid(_)
utf8_valid(s) ==
    IF s = << >> THEN TRUE
    ELSE LET b0 == s[1]
             cont(k) == k <= Len(s) /\ s[k] \in 128..191
             rest(k) == utf8_valid(SubSeq(s, k, Len(s)))
         IN  IF b0 < 128 THEN rest(2)
             ELSE IF b0 \in 194..223 THEN cont(2) /\ rest(3)
             ELSE IF b0 \in 224..239
             THEN /\ cont(2) /\ cont(3)
                  /\ (b0 = 224 => s[2] >= 160)
                  /\ (b0 = 237 => s[2] <= 159)
                  /\ rest(4)
             ELSE IF b0 \in 240..244
             THEN /\ cont(2) /\ cont(3) /\ cont(4)
                  /\ (b0 = 240 => s[2] >= 144)
                  /\ (b0 = 244 => s[2] <= 143)
                  /\ rest(5)
             ELSE FALSE

\* seg_name: the bytes before the first NUL (all 16 when there is none), or
\* the empty string when they are not UTF-8.
RECURSIVE UpToNul(_)
UpToNul(raw) ==
    IF raw = << >> \/ Head(raw) = 0 THEN << >> ELSE <<Head(raw)>> \o UpToNul(Tail(raw))

seg_name(raw) ==
    LET s == UpToNul(raw)
    IN  IF utf8_valid(s) THEN s ELSE << >>

\* push_bound: record (off, off + byte_size) when both are non-zero.
push_bound(bounds, off, byte_size) ==
    IF ~IsZero(off) /\ ~IsZero(byte_size)
    THEN [panic |-> overflow_checks /\ add_overflows(off, byte_size),
          bounds |-> Append(bounds, <<off, wrapping_add(off, byte_size)>>)]
    ELSE [panic |-> FALSE, bounds |-> bounds]

\* A patch_linkedit! that rebases but leaves a stale offset in place.
patch_linkedit_keeps_stale(b, pos, st, off, size, new_base, minoff) ==
    LET old == get(b, pos, st, off)
        d   == wrapping_sub(old, minoff)
    IN  IF ~IsZero(old) /\ ~IsZero(get(b, pos, st, size))
        THEN [panic |-> overflow_checks /\
                        (sub_overflows(old, minoff) \/ add_overflows(new_base, d)),
              buf |-> set(b, pos, st, off, wrapping_add(new_base, d))]
        ELSE [panic |-> FALSE, buf |-> b]

\* A patch_linkedit! that writes one command too far, at the same field
\* offset behind pos + size_of(st).
patch_linkedit_next_command(b, pos, st, off, size, new_base, minoff) ==
    LET old == get(b, pos, st, off)
        d   == wrapping_sub(old, minoff)
        at  == IF Len(b) >= pos + 2 * size_of(st) THEN pos + size_of(st) ELSE pos
    IN  IF ~IsZero(old) /\ ~IsZero(get(b, pos, st, size))
        THEN [panic |-> overflow_checks /\
                        (sub_overflows(old, minoff) \/ add_overflows(new_base, d)),
              buf |-> set(b, at, st, off, wrapping_add(new_base, d))]
        ELSE IF ~IsZero(old)
        THEN [panic |-> FALSE, buf |-> set(b, at, st, off, U32(0))]
        ELSE [panic |-> FALSE, buf |-> b]

\* patch_linkedit!(cmd, off, size, new_base, minoff) on the structure st at
\* b[pos..]: rebase the offset when the size/count field is non-zero, clear
\* it when only the offset is.
patch_linkedit(b, pos, st, off, size, new_base, minoff) ==
    LET old == get(b, pos, st, off)
        d   == wrapping_sub(old, minoff)
    IN  IF ~IsZero(old) /\ ~IsZero(get(b, pos, st, size))
        THEN [panic |-> overflow_checks /\
                        (sub_overflows(old, minoff) \/ add_overflows(new_base, d)),
              buf |-> set(b, pos, st, off, wrapping_add(new_base, d))]
        ELSE IF ~IsZero(old)
        THEN [panic |-> FALSE, buf |-> set(b, pos, st, off, U32(0))]
        ELSE [panic |-> FALSE, buf |-> b]

\* The linkedit-bearing commands: the structure a tag is read as and its
\* (offset field, size-or-count field, bytes per count) triples, in the
\* order the code visits them.  << >> for every other tag.
LinkeditStruct(cmd) ==
    CASE cmd = LC_SYMTAB -> SymtabCommand
      [] cmd = LC_DYSYMTAB -> DysymtabCommand
      [] cmd \in {LC_DYLD_INFO, LC_DYLD_INFO_ONLY} -> DyldInfoCommand
      [] cmd \in {LC_FUNCTION_STARTS, LC_DATA_IN_CODE, LC_CODE_SIGNATURE,
                  LC_DYLD_EXPORTS_TRIE, LC_DYLD_CHAINED_FIXUPS} -> LinkeditDataCommand
      [] OTHER -> << >>

LinkeditFields(cmd) ==
    CASE cmd = LC_SYMTAB ->
           << <<"symoff", "nsyms", 16>>, <<"stroff", "strsize", 1>> >>
      [] cmd = LC_DYSYMTAB ->
           << <<"tocoff", "ntoc", 8>>, <<"modtaboff", "nmodtab", 56>>,
              <<"extrefsymoff", "nextrefsyms", 4>>,
              <<"indirectsymoff", "nindirectsyms", 4>>,
              <<"extreloff", "nextrel", 8>>, <<"locreloff", "nlocrel", 8>> >>
      [] cmd \in {LC_DYLD_INFO, LC_DYLD_INFO_ONLY} ->
           << <<"rebase_off", "rebase_size", 1>>, <<"bind_off", "bind_size", 1>>,
              <<"weak_bind_off", "weak_bind_size", 1>>,
              <<"lazy_bind_off", "lazy_bind_size", 1>>,
              <<"export_off", "export_size", 1>> >>
      [] cmd \in {LC_FUNCTION_STARTS, LC_DATA_IN_CODE, LC_CODE_SIGNATURE,
                  LC_DYLD_EXPORTS_TRIE, LC_DYLD_CHAINED_FIXUPS} ->
           << <<"dataoff", "datasize", 1>> >>
      [] OTHER -> << >>

\* The push_bound calls of one command (phase 2), threading the bounds.
RECURSIVE push_bounds(_, _, _, _, _)
push_bounds(b, pos, st, fields, bounds) ==
    IF fields = << >> THEN [panic |-> FALSE, bounds |-> bounds]
    ELSE LET f   == Head(fields)
             cnt == get(b, pos, st, f[2])
             r   == push_bound(bounds, get(b, pos, st, f[1]), wrapping_mul(cnt, f[3]))
         IN  IF (overflow_checks /\ mul_overflows(cnt, f[3])) \/ r.panic
             THEN [panic |-> TRUE, bounds |-> bounds]
             ELSE push_bounds(b, pos, st, Tail(fields), r.bounds)

\* The patch_linkedit! calls of one command (phase 5c), threading the buffer.
RECURSIVE patch_fields(_, _, _, _, _, _)
patch_fields(b, pos, st, fields, new_base, minoff) ==
    IF fields = << >> THEN [panic |-> FALSE, buf |-> b]
    ELSE LET r == patch_linkedit(b, pos, st, Head(fields)[1], Head(fields)[2],
                                 new_base, minoff)
         IN  IF r.panic THEN r
             ELSE patch_fields(r.buf, pos, st, Tail(fields), new_base, minoff)

\* Phase 2, the read pass: n commands from cmd_pos on.  status is "ok",
\* "err" (the ? on the LoadCommand parse) or "panic" (a slice start past the
\* end of the buffer, an unwrap of a failed parse, an overflow).
RECURSIVE collect(_, _, _, _, _)
collect(b, cmd_pos, n, segs, bounds) ==
    IF IsZero(n) THEN [status |-> "ok", segments |-> segs, linkedit_bounds |-> bounds]
    ELSE IF cmd_pos > Len(b)
    THEN [status |-> "panic", segments |-> segs, linkedit_bounds |-> bounds]
    ELSE IF ~from_bytes_ok(b, cmd_pos, LoadCommand)
    THEN [status |-> "err", segments |-> segs, linkedit_bounds |-> bounds]
    ELSE
      LET cmd     == get(b, cmd_pos, LoadCommand, "cmd")
          cmdsize == as_usize(get(b, cmd_pos, LoadCommand, "cmdsize"))
          next    == position(wrapping_add(U64(cmd_pos), cmdsize), Len(b))
      IN  IF cmd = LC_SEGMENT_64
          THEN IF ~from_bytes_ok(b, cmd_pos, SegmentCommand64)
               THEN [status |-> "panic", segments |-> segs, linkedit_bounds |-> bounds]
               ELSE collect(b, next, wrapping_sub(n, U64(1)),
                       Append(segs,
                         [name |-> get(b, cmd_pos, SegmentCommand64, "segname"),
                          vmaddr |-> get(b, cmd_pos, SegmentCommand64, "vmaddr"),
                          vmsize |-> get(b, cmd_pos, SegmentCommand64, "vmsize"),
                          old_fileoff |-> get(b, cmd_pos, SegmentCommand64, "fileoff"),
                          old_filesize |-> get(b, cmd_pos, SegmentCommand64, "filesize"),
                          cmd_offset |-> cmd_pos]),
                       bounds)
          ELSE IF LinkeditStruct(cmd) # << >>
          THEN IF ~from_bytes_ok(b, cmd_pos, LinkeditStruct(cmd))
               THEN [status |-> "panic", segments |-> segs, linkedit_bounds |-> bounds]
               ELSE LET r == push_bounds(b, cmd_pos, LinkeditStruct(cmd),
                                         LinkeditFields(cmd), bounds)
                    IN  IF r.panic
                        THEN [status |-> "panic", segments |-> segs,
                              linkedit_bounds |-> r.bounds]
                        ELSE collect(b, next, wrapping_sub(n, U64(1)), segs, r.bounds)
          ELSE collect(b, next, wrapping_sub(n, U64(1)), segs, bounds)


--------------------------------------------------------------------------
(* Phase 3: the __LINKEDIT segment and the range of it the image uses.    *)

\* Index of the first segment named __LINKEDIT (iter().find / position); 0
\* when there is none.
RECURSIVE position_from(_, _, _)
position_from(segs, nm, i) ==
    IF i > Len(segs) THEN 0
    ELSE IF seg_name(segs[i].name) = nm THEN i
    ELSE position_from(segs, nm, i + 1)

linkedit_position(segs) == position_from(segs, LINKEDIT, 1)

\* iter().map(..).min() and .max() over the recorded bounds (u32 order).
RECURSIVE min_of(_, _)
min_of(bounds, k) ==
    IF Len(bounds) = 1 THEN bounds[1][k]
    ELSE LET m == min_of(Tail(bounds), k)
         IN  IF Le(Head(bounds)[k], m) THEN Head(bounds)[k] ELSE m

RECURSIVE max_of(_, _)
max_of(bounds, k) ==
    IF Len(bounds) = 1 THEN bounds[1][k]
    ELSE LET m == max_of(Tail(bounds), k)
         IN  IF Le(m, Head(bounds)[k]) THEN Head(bounds)[k] ELSE m

\* (minoff, max_end) and linkedit_extract_size.
linkedit_range(seg, bounds) ==
    LET sum == wrapping_add(seg.old_fileoff, seg.old_filesize)
        lo  == IF bounds = << >> THEN as_u32(seg.old_fileoff) ELSE min_of(bounds, 1)
        hi  == IF bounds = << >> THEN as_u32(sum) ELSE max_of(bounds, 2)
    IN  [panic |-> overflow_checks /\
                   ((bounds = << >> /\ add_overflows(seg.old_fileoff, seg.old_filesize))
                    \/ sub_overflows(hi, lo)),
         min_off |-> lo,
         max_end |-> hi,
         linkedit_extract_size |-> as_u64(wrapping_sub(hi, lo))]

--------------------------------------------------------------------------
(* Phase 4: the new file layout.                                          *)

\* The loop over the segments: __LINKEDIT is skipped, __TEXT goes to 0 and
\* sets the cursor, every other segment goes to the aligned cursor.
RECURSIVE place_segments(_, _, _, _)
place_segments(segs, i, cursor, lays) ==
    IF i > Len(segs) THEN [panic |-> FALSE, cursor |-> cursor, layouts |-> lays]
    ELSE
      LET seg  == segs[i]
          name == seg_name(seg.name)
          al   == align_to(cursor, PAGE_SIZE)
      IN  IF name = LINKEDIT THEN place_segments(segs, i + 1, cursor, lays)
          ELSE IF name = TEXT
          THEN place_segments(segs, i + 1, seg.old_filesize,
                  Append(lays, [seg_index |-> i, new_fileoff |-> U64(0),
                                   new_filesize |-> seg.old_filesize,
                                   new_vmaddr |-> seg.vmaddr, new_vmsize |-> seg.vmsize]))
          ELSE IF al.panic \/ (overflow_checks /\ add_overflows(al.val, seg.old_filesize))
          THEN [panic |-> TRUE, cursor |-> cursor, layouts |-> lays]
          ELSE place_segments(segs, i + 1, wrapping_add(al.val, seg.old_filesize),
                  Append(lays, [seg_index |-> i, new_fileoff |-> al.val,
                                   new_filesize |-> seg.old_filesize,
                                   new_vmaddr |-> seg.vmaddr, new_vmsize |-> seg.vmsize]))

\* "__LINKEDIT last" and total_size.
place_linkedit(segs, placed, minoff, extract_size) ==
    LET idx == linkedit_position(segs)
        seg == segs[idx]
        al  == align_to(placed.cursor, PAGE_SIZE)
        d   == wrapping_sub(as_u64(minoff), seg.old_fileoff)
    IN  [panic |-> al.panic \/
                   (overflow_checks /\
                     (sub_overflows(as_u64(minoff), seg.old_fileoff)
                      \/ add_overflows(seg.vmaddr, d)
                      \/ add_overflows(al.val, extract_size))),
         pushed |-> ~(al.panic \/
                      (overflow_checks /\
                        (sub_overflows(as_u64(minoff), seg.old_fileoff)
                         \/ add_overflows(seg.vmaddr, d)))),
         linkedit_new_fileoff |-> al.val,
         layouts |-> Append(placed.layouts,
                       [seg_index |-> idx, new_fileoff |-> al.val,
                        new_filesize |-> extract_size,
                        new_vmaddr |-> wrapping_add(seg.vmaddr, d),
                        new_vmsize |-> extract_size]),
         total_size |-> wrapping_add(al.val, extract_size)]

--------------------------------------------------------------------------
(* Phase 5: patching the buffer.                                          *)

\* A 5a that leaves the flags as they are.
clear_in_cache_kept(b) == b

\* 5a: header.flags & !MH_DYLIB_IN_CACHE.
clear_in_cache(b) ==
    set(b, 0, MachHeader64, "flags",
        BitAnd(get(b, 0, MachHeader64, "flags"), BitNot(MH_DYLIB_IN_CACHE)))

is_zerofill(flags) ==
    BitAnd(flags, SECTION_TYPE) \in {S_ZEROFILL, S_GB_ZEROFILL, S_THREAD_LOCAL_ZEROFILL}

\* A section offset that is not moved with its segment.
section_offset_unmoved(old_offset, delta) == old_offset

\* (old_offset as i64 + delta) as u32
section_offset(old_offset, delta) == as_u32(wrapping_add(as_u64(old_offset), delta))

\* 5b, inner loop: sections i..nsects-1 of the segment whose sections start
\* at sect_start.  A section that does not lie in the buffer panics (the
\* slice, or the unwrap).
RECURSIVE patch_sections(_, _, _, _, _, _, _)
patch_sections(b, sect_start, i, nsects, delta, new_base, minoff) ==
    IF ~Lt(U64(i), nsects) THEN [panic |-> FALSE, buf |-> b]
    ELSE
      LET s_off  == sect_start + i * size_of(Section64)
      IN  IF ~from_bytes_ok(b, s_off, Section64) THEN [panic |-> TRUE, buf |-> b]
          ELSE
            LET old_offset == get(b, s_off, Section64, "offset")
                old_reloff == get(b, s_off, Section64, "reloff")
                patch_off  == ~is_zerofill(get(b, s_off, Section64, "flags"))
                              /\ ~IsZero(old_offset)
                b1 == IF patch_off
                      THEN set(b, s_off, Section64, "offset",
                               section_offset(old_offset, delta))
                      ELSE b
                d  == wrapping_sub(old_reloff, minoff)
                b2 == IF ~IsZero(old_reloff)
                      THEN set(b1, s_off, Section64, "reloff", wrapping_add(new_base, d))
                      ELSE b1
            IN  IF overflow_checks /\
                   ((patch_off /\ iadd_overflows(as_u64(old_offset), delta))
                    \/ (~IsZero(old_reloff) /\
                        (sub_overflows(old_reloff, minoff) \/ add_overflows(new_base, d))))
                THEN [panic |-> TRUE, buf |-> b]
                ELSE patch_sections(b2, sect_start, i + 1, nsects, delta, new_base, minoff)

\* A segment patch that writes the address fields of every segment, with
\* the file size as size in memory.
patch_segment_command_all(b, c, layout, linked) ==
    set(set(set(set(b, c, SegmentCommand64, "fileoff", layout.new_fileoff),
                c, SegmentCommand64, "filesize", layout.new_filesize),
            c, SegmentCommand64, "vmaddr", layout.new_vmaddr),
        c, SegmentCommand64, "vmsize", layout.new_filesize)

\* 5b: the fields written into a segment command: fileoff and filesize, and
\* for __LINKEDIT vmaddr and vmsize too.
patch_segment_command(b, c, layout, linked) ==
    LET b1 == set(set(b, c, SegmentCommand64, "fileoff", layout.new_fileoff),
                  c, SegmentCommand64, "filesize", layout.new_filesize)
    IN  IF linked
        THEN set(set(b1, c, SegmentCommand64, "vmaddr", layout.new_vmaddr),
                 c, SegmentCommand64, "vmsize", layout.new_vmsize)
        ELSE b1

\* 5b, outer loop over the layouts.
RECURSIVE patch_segments(_, _, _, _, _, _)
patch_segments(b, segs, lays, k, linkedit_fileoff, minoff) ==
    IF k > Len(lays) THEN [panic |-> FALSE, buf |-> b]
    ELSE
      LET layout == lays[k]
          seg    == segs[layout.seg_index]
          c      == seg.cmd_offset
          linked == seg_name(seg.name) = LINKEDIT
          b2 == patch_segment_command(b, c, layout, linked)
          nsects == as_usize(get(b2, c, SegmentCommand64, "nsects"))
          r == IF linked THEN [panic |-> FALSE, buf |-> b2]
               ELSE IF overflow_checks /\ isub_overflows(layout.new_fileoff, seg.old_fileoff)
               THEN [panic |-> TRUE, buf |-> b2]
               ELSE patch_sections(b2, c + size_of(SegmentCommand64), 0, nsects,
                                   wrapping_sub(layout.new_fileoff, seg.old_fileoff),
                                   as_u32(linkedit_fileoff), minoff)
      IN  IF r.panic THEN r
          ELSE patch_segments(r.buf, segs, lays, k + 1, linkedit_fileoff, minoff)

\* 5c: the second walk over the commands (every parse is unwrapped).
RECURSIVE patch_commands(_, _, _, _, _)
patch_commands(b, cmd_pos, n, new_base, minoff) ==
    IF IsZero(n) THEN [panic |-> FALSE, buf |-> b]
    ELSE IF ~from_bytes_ok(b, cmd_pos, LoadCommand) THEN [panic |-> TRUE, buf |-> b]
    ELSE
      LET cmd     == get(b, cmd_pos, LoadCommand, "cmd")
          cmdsize == as_usize(get(b, cmd_pos, LoadCommand, "cmdsize"))
          next    == position(wrapping_add(U64(cmd_pos), cmdsize), Len(b))
          st      == LinkeditStruct(cmd)
      IN  IF st = << >> THEN patch_commands(b, next, wrapping_sub(n, U64(1)), new_base, minoff)
          ELSE IF ~from_bytes_ok(b, cmd_pos, st) THEN [panic |-> TRUE, buf |-> b]
          ELSE LET r == patch_fields(b, cmd_pos, st, LinkeditFields(cmd), new_base, minoff)
               IN  IF r.panic THEN r
                   ELSE patch_commands(r.buf, next, wrapping_sub(n, U64(1)), new_base,
                                       minoff)

--------------------------------------------------------------------------
(* The cache view (object::read::macho::DyldCache), as cmd_extract uses   *)
(* it.  cache.files is the main cache file followed by the subcache       *)
(* files: files[f].len is the length of file f and files[f].header the    *)
(* bytes it starts with, the dyld cache header and its tables; a mapping  *)
(* [address, size, file_offset, file] maps that address range onto file;  *)
(* cache.image is the image's entry: whether its path is listed, its      *)
(* address, and the header+load-command bytes stored at [file, off].      *)

\* The byte of file f at offset off (a u64): a byte of the dyld cache header
\* at the start of the file, the image's header bytes where they are stored,
\* and a non-zero filler everywhere else.
DataByte(c, f, off) ==
    LET rel == wrapping_sub(off, c.image.off)
    IN  IF Lt(off, U64(Len(c.files[f].header)))
        THEN c.files[f].header[word_value(off) + 1]
        ELSE IF f = c.image.file /\ Le(c.image.off, off)
                /\ Lt(rel, U64(Len(c.image.bytes)))
        THEN c.image.bytes[word_value(rel) + 1]
        ELSE ((off[1] + off[2]) % 255) + 1

\* The mappings of file f, in the order of its mapping table.
mappings_of(c, f) == SelectSeq(c.mappings, LAMBDA m : m.file = f)

\* The first mapping of one file that holds the address gives the file
\* offset address - mapping.address + mapping.file_offset; the sum is a plain
\* +, which panics on overflow in a build with overflow checks.
RECURSIVE address_to_file_offset(_, _)
address_to_file_offset(vmaddr, maps) ==
    IF maps = << >> THEN [panic |-> FALSE, some |-> FALSE]
    ELSE LET m   == Head(maps)
             rel == wrapping_sub(vmaddr, m.address)
         IN  IF Le(m.address, vmaddr) /\ Lt(vmaddr, wrapping_add(m.address, m.size))
             THEN [panic |-> overflow_checks /\ add_overflows(rel, m.file_offset),
                   some |-> TRUE, offset |-> wrapping_add(rel, m.file_offset)]
             ELSE address_to_file_offset(vmaddr, Tail(maps))

\* The search of file f and the files behind it: the main cache file comes
\* first, then each subcache in turn.
RECURSIVE lookup_from(_, _, _)
lookup_from(c, f, vmaddr) ==
    IF f > Len(c.files) THEN [panic |-> FALSE, some |-> FALSE]
    ELSE LET r == address_to_file_offset(vmaddr, mappings_of(c, f))
         IN  IF r.some
             THEN [panic |-> r.panic, some |-> TRUE, file |-> f, len |-> c.files[f].len,
                   offset |-> r.offset]
             ELSE lookup_from(c, f + 1, vmaddr)

\* data_and_offset_for_address: the whole file and the file offset of the
\* address, or none.
data_and_offset_for_address(c, vmaddr) == lookup_from(c, 1, vmaddr)

--------------------------------------------------------------------------
(* Phase 6: the output buffer.  It is its length (total_size zero bytes   *)
(* at first) and the copies made into it, in order; a copy is            *)
(* [dst, n] and where its bytes come from.                                *)

\* output_buf[dst_start..dst_end].copy_from_slice(&data[src_start..src_end])
\* or, when the source is short, the copy of what is available.
copy_payload(out, d, size, dst_start) ==
    LET src_start == d.offset
        src_end   == wrapping_add(src_start, size)
        dst_end   == wrapping_add(dst_start, size)
        available == wrapping_sub(d.len, src_start)
        part_end  == wrapping_add(dst_start, available)
    IN  IF overflow_checks /\
           (add_overflows(src_start, size) \/ add_overflows(dst_start, size))
        THEN [panic |-> TRUE, out |-> out]
        ELSE IF Le(src_end, d.len)
        THEN IF Lt(dst_end, dst_start) \/ Lt(out.len, dst_end) \/ Lt(src_end, src_start)
             THEN [panic |-> TRUE, out |-> out]
             ELSE [panic |-> FALSE,
                   out |-> [out EXCEPT !.writes = Append(@,
                              [dst |-> dst_start, n |-> size, from |-> "cache",
                               file |-> d.file, src |-> src_start])]]
        ELSE IF Lt(d.len, src_start)
                \/ (overflow_checks /\ add_overflows(dst_start, available))
                \/ Lt(part_end, dst_start) \/ Lt(out.len, part_end)
        THEN [panic |-> TRUE, out |-> out]
        ELSE [panic |-> FALSE,
              out |-> [out EXCEPT !.writes = Append(@,
                         [dst |-> dst_start, n |-> available, from |-> "cache",
                          file |-> d.file, src |-> src_start])]]

\* The byte at position i (a u64) of an output buffer: that of the last copy
\* covering i, zero when there is none.
RECURSIVE byte_from(_, _, _, _)
byte_from(c, writes, k, i) ==
    IF k = 0 THEN 0
    ELSE LET w == writes[k]
         IN  IF Le(w.dst, i) /\ Lt(i, wrapping_add(w.dst, w.n))
             THEN IF w.from = "buf" THEN w.bytes[word_value(wrapping_sub(i, w.dst)) + 1]
                  ELSE DataByte(c, w.file, wrapping_add(w.src, wrapping_sub(i, w.dst)))
             ELSE byte_from(c, writes, k - 1, i)

output_byte(c, out, i) == byte_from(c, out.writes, Len(out.writes), i)

--------------------------------------------------------------------------
(* The inputs: images as they lie in a cache, built field by field.       *)

\* 0xaaaabbbb as a u32 and 0xaaaabbbbccccdddd as a u64, from 16-bit groups.
H32(a, b) == LE(b, 2) \o LE(a, 2)
H64(a, b, c, d) == LE(d, 2) \o LE(c, 2) \o LE(b, 2) \o LE(a, 2)

Zeros(n) == SubSeq([k \in 1..(n + 1) |-> 0], 1, n)

Name16(s) == s \o Zeros(16 - Len(s))

RECURSIVE Concat(_)
Concat(ss) == IF ss = << >> THEN << >> ELSE Head(ss) \o Concat(Tail(ss))

MkSection(sectname, segname, offset, reloff, flags) ==
    Name16(sectname) \o Name16(segname) \o U64(0) \o U64(256) \o offset \o U32(0)
    \o reloff \o U32(0) \o flags \o U32(0) \o U32(0) \o U32(0)

MkSegment(name, vmaddr, vmsize, fileoff, filesize, sects) ==
    LC_SEGMENT_64 \o U32(size_of(SegmentCommand64) + size_of(Section64) * Len(sects))
    \o Name16(name) \o vmaddr \o vmsize \o fileoff \o filesize
    \o U32(5) \o U32(5) \o U32(Len(sects)) \o U32(0) \o Concat(sects)

MkSymtab(symoff, nsyms, stroff, strsize) ==
    LC_SYMTAB \o U32(size_of(SymtabCommand)) \o symoff \o nsyms \o stroff \o strsize

\* pairs: the six (offset, count) pairs, tocoff first.
MkDysymtab(pairs) ==
    LC_DYSYMTAB \o U32(size_of(DysymtabCommand)) \o Zeros(24)
    \o Concat([k \in 1..6 |-> pairs[k][1] \o pairs[k][2]])

\* pairs: the five (offset, size) pairs, rebase first.
MkDyldInfo(cmd, pairs) ==
    cmd \o U32(size_of(DyldInfoCommand)) \o Concat([k \in 1..5 |-> pairs[k][1] \o pairs[k][2]])

MkLinkeditData(cmd, dataoff, datasize) ==
    cmd \o U32(size_of(LinkeditDataCommand)) \o dataoff \o datasize

\* A command the extractor does not know: LC_UUID with its 16 bytes.
MkUuid == U32(27) \o U32(24) \o [k \in 1..16 |-> 15 * k + 1]

MkHeader(magic, flags, n, sizeofcmds) ==
    magic \o H32(256, 12) \o U32(0) \o U32(6) \o U32(n) \o U32(sizeofcmds)
    \o flags \o U32(0)

MkImage(magic, flags, cmds) ==
    MkHeader(magic, flags, Len(cmds), Len(Concat(cmds))) \o Concat(cmds)

--------------------------------------------------------------------------
(* cmd_extract, phase by phase.                                           *)

dylib_path == "/usr/lib/libfoo.dylib"

\* n bytes of file f from offset off on.
Bytes(c, f, off, n) ==
    [i \in 1..n |-> DataByte(c, f, wrapping_add(off, U64(i - 1)))]

\* The call ends: with Err(msg) (kind "err"), by a panic, or with the
\* process: aborted by the allocator ("abort") or killed by a signal
\* ("killed").
Fail(kind, msg) ==
    /\ pc' = "done"
    /\ outcome' = kind
    /\ error' = msg

\* What the machine may do to a step: nothing, refuse the memory of an
\* allocation (the allocator aborts the process), or raise SIGBUS at a read
\* of a mapped cache file that has lost the page read.
Faults == {"none", "abort", "bus"}

\* A refused allocation: the handler writes its message to stderr and
\* aborts the process; where stderr is a file at its size limit the write
\* ends the process first (SIGXFSZ).
Abort ==
    \/ Fail("abort", "memory allocation failed")
    \/ Fail("killed", "SIGXFSZ")

\* A panic: the runtime allocates and writes the message to stderr before
\* the process exits, so that the panic may end as a refused allocation
\* does.
Panics(msg) ==
    \/ Fail("panic", msg)
    \/ Abort

\* The ? on an error: the error is boxed, an allocation, and returned.
Returns(fault, msg) == IF fault = "abort" THEN Abort ELSE Fail("err", msg)

\* What a write to stderr may do: succeed, fail (eprintln! panics), or end
\* the process where stderr is a file at its size limit (SIGXFSZ).
StderrWrites == {"ok", "fails", "signal"}
Eprintln(stderr) ==
    IF stderr = "signal" THEN Fail("killed", "SIGXFSZ")
    ELSE Panics("failed printing to stderr")

\* Phase 1: find the image, read the header, copy header + load commands.
\* The image table, the mapping table and the header are read from the
\* mapped files; format!, the boxing of an error and to_vec allocate.
Phase1 ==
    /\ pc = "phase1"
    /\ \E fault \in Faults :
       LET d     == data_and_offset_for_address(cache, cache.image.address)
           avail == wrapping_sub(d.len, d.offset)
           hdr   == Bytes(cache, d.file, d.offset, size_of(MachHeader64))
           sizeofcmds == get(hdr, 0, MachHeader64, "sizeofcmds")
       IN  IF fault = "bus"
           THEN Fail("killed", "SIGBUS") /\ UNCHANGED <<buf, ncmds>>
           ELSE IF ~cache.image.listed
           THEN Returns(fault, "Image '/usr/lib/libfoo.dylib' not found in cache")
                /\ UNCHANGED <<buf, ncmds>>
           ELSE IF d.panic
           THEN Panics("attempt to add with overflow") /\ UNCHANGED <<buf, ncmds>>
           ELSE IF ~d.some
           THEN Returns(fault, "Address not found in any mapping") /\ UNCHANGED <<buf, ncmds>>
           ELSE IF Lt(d.len, d.offset)
           THEN Panics("range start index out of range") /\ UNCHANGED <<buf, ncmds>>
           ELSE IF Lt(avail, U64(size_of(MachHeader64)))
           THEN Returns(fault, "Failed to parse Mach-O header") /\ UNCHANGED <<buf, ncmds>>
           ELSE IF Lt(avail, wrapping_add(U64(size_of(MachHeader64)), as_u64(sizeofcmds)))
           THEN Panics("range end index out of range") /\ UNCHANGED <<buf, ncmds>>
           ELSE IF fault = "abort"
           THEN Abort /\ UNCHANGED <<buf, ncmds>>
           ELSE /\ buf' = Bytes(cache, d.file, d.offset,
                                size_of(MachHeader64) + word_value(sizeofcmds))
                /\ ncmds' = as_usize(get(hdr, 0, MachHeader64, "ncmds"))
                /\ pc' = "phase2"
                /\ UNCHANGED <<outcome, error>>
    /\ UNCHANGED <<overflow_checks, cache, output, segments, linkedit_bounds, min_off,
                   max_end, linkedit_extract_size, layouts, linkedit_new_fileoff,
                   total_size, output_buf, li, file>>

\* Phase 2: collect the segments and the linkedit bounds.  The first push
\* onto either vector allocates, and so does the boxing of the parse error.
Phase2 ==
    /\ pc = "phase2"
    /\ \E fault \in {"none", "abort"} :
       LET r == collect(buf, size_of(MachHeader64), ncmds, << >>, << >>)
       IN  IF fault = "abort" /\ (r.segments # << >> \/ r.linkedit_bounds # << >>)
           THEN Abort /\ UNCHANGED <<segments, linkedit_bounds>>
           ELSE IF r.status = "err"
           THEN Returns(fault, "Failed to parse load command")
                /\ UNCHANGED <<segments, linkedit_bounds>>
           ELSE IF r.status = "panic"
           THEN Panics("phase 2") /\ UNCHANGED <<segments, linkedit_bounds>>
           ELSE /\ segments' = r.segments
                /\ linkedit_bounds' = r.linkedit_bounds
                /\ pc' = "phase3"
                /\ UNCHANGED <<outcome, error>>
    /\ UNCHANGED <<overflow_checks, cache, output, buf, ncmds, min_off, max_end,
                   linkedit_extract_size, layouts, linkedit_new_fileoff, total_size,
                   output_buf, li, file>>

\* Phase 3: the __LINKEDIT segment and the range to extract.
Phase3 ==
    /\ pc = "phase3"
    /\ \E fault \in {"none", "abort"} :
       LET idx == linkedit_position(segments)
           r   == linkedit_range(segments[idx], linkedit_bounds)
       IN  IF idx = 0
           THEN Returns(fault, "No __LINKEDIT segment found")
                /\ UNCHANGED <<min_off, max_end, linkedit_extract_size>>
           ELSE IF r.panic
           THEN Panics("phase 3")
                /\ UNCHANGED <<min_off, max_end, linkedit_extract_size>>
           ELSE /\ min_off' = r.min_off
                /\ max_end' = r.max_end
                /\ linkedit_extract_size' = r.linkedit_extract_size
                /\ pc' = "phase4"
                /\ UNCHANGED <<outcome, error>>
    /\ UNCHANGED <<overflow_checks, cache, output, buf, ncmds, segments, linkedit_bounds,
                   layouts, linkedit_new_fileoff, total_size, output_buf, li, file>>

\* Phase 4: the new layout.  The first push onto layouts allocates.
Phase4 ==
    /\ pc = "phase4"
    /\ \E fault \in {"none", "abort"} :
       LET placed == place_segments(segments, 1, U64(0), << >>)
           r      == place_linkedit(segments, placed, min_off, linkedit_extract_size)
       IN  IF fault = "abort" /\ (placed.layouts # << >> \/ (~placed.panic /\ r.pushed))
           THEN Abort /\ UNCHANGED <<layouts, linkedit_new_fileoff, total_size>>
           ELSE IF placed.panic \/ r.panic
           THEN Panics("phase 4")
                /\ UNCHANGED <<layouts, linkedit_new_fileoff, total_size>>
           ELSE /\ layouts' = r.layouts
                /\ linkedit_new_fileoff' = r.linkedit_new_fileoff
                /\ total_size' = r.total_size
                /\ pc' = "phase5a"
                /\ UNCHANGED <<outcome, error>>
    /\ UNCHANGED <<overflow_checks, cache, output, buf, ncmds, segments, linkedit_bounds,
                   min_off, max_end, linkedit_extract_size, output_buf, li, file>>

\* Phase 5a: clear MH_DYLIB_IN_CACHE.
Phase5a ==
    /\ pc = "phase5a"
    /\ buf' = clear_in_cache(buf)
    /\ pc' = "phase5b"
    /\ UNCHANGED <<overflow_checks, cache, output, outcome, error, ncmds, segments,
                   linkedit_bounds, min_off, max_end, linkedit_extract_size, layouts,
                   linkedit_new_fileoff, total_size, output_buf, li, file>>

\* Phase 5b: patch the segment commands and their sections.
Phase5b ==
    /\ pc = "phase5b"
    /\ LET r == patch_segments(buf, segments, layouts, 1, linkedit_new_fileoff, min_off)
       IN  IF r.panic
           THEN Panics("phase 5b") /\ UNCHANGED buf
           ELSE buf' = r.buf /\ pc' = "phase5c" /\ UNCHANGED <<outcome, error>>
    /\ UNCHANGED <<overflow_checks, cache, output, ncmds, segments, linkedit_bounds,
                   min_off, max_end, linkedit_extract_size, layouts,
                   linkedit_new_fileoff, total_size, output_buf, li, file>>

\* Phase 5c: patch the commands that point into __LINKEDIT.
Phase5c ==
    /\ pc = "phase5c"
    /\ LET r == patch_commands(buf, size_of(MachHeader64), ncmds,
                               as_u32(linkedit_new_fileoff), min_off)
       IN  IF r.panic
           THEN Panics("phase 5c") /\ UNCHANGED buf
           ELSE buf' = r.buf /\ pc' = "alloc" /\ UNCHANGED <<outcome, error>>
    /\ UNCHANGED <<overflow_checks, cache, output, ncmds, segments, linkedit_bounds,
                   min_off, max_end, linkedit_extract_size, layouts,
                   linkedit_new_fileoff, total_size, output_buf, li, file>>

\* An allocation step that creates the output file before the payload is
\* copied.
Allocate_creating ==
    /\ pc = "alloc"
    /\ output_buf' = [len |-> total_size, writes |-> << >>]
    /\ li' = 1
    /\ pc' = "copy"
    /\ file' = [created |-> TRUE, path |-> output, len_from |-> U64(0), len_to |-> U64(0),
                 writes |-> << >>]
    /\ UNCHANGED <<overflow_checks, cache, output, outcome, error, buf, ncmds, segments,
                   linkedit_bounds, min_off, max_end, linkedit_extract_size, layouts,
                   linkedit_new_fileoff, total_size>>

\* Phase 6: vec![0u8; total_size]; a capacity above isize::MAX panics, and
\* an allocation of any bytes at all succeeds or, when the machine does not
\* give the memory, aborts the process; no bytes need no memory.
Allocate ==
    /\ pc = "alloc"
    /\ \E alloc_ok \in (IF IsZero(total_size) THEN {TRUE} ELSE BOOLEAN) :
         IF IsNeg(total_size)
         THEN Panics("capacity overflow") /\ UNCHANGED <<output_buf, li>>
         ELSE IF ~alloc_ok
         THEN Abort /\ UNCHANGED <<output_buf, li>>
         ELSE /\ output_buf' = [len |-> total_size, writes |-> << >>]
              /\ li' = 1
              /\ pc' = "copy"
              /\ UNCHANGED <<outcome, error>>
    /\ UNCHANGED <<overflow_checks, cache, output, buf, ncmds, segments, linkedit_bounds,
                   min_off, max_end, linkedit_extract_size, layouts,
                   linkedit_new_fileoff, total_size, file>>

\* Phase 6, one turn of the loop over the layouts: copy a segment's payload.
\* The lookup and the copy read the mapped files; the boxing of the
\* __LINKEDIT error allocates; the warnings are written to stderr.
CopySegment ==
    /\ pc = "copy"
    /\ li <= Len(layouts)
    /\ \E fault \in Faults, stderr \in StderrWrites :
       LET layout == layouts[li]
           seg    == segments[layout.seg_index]
           linked == seg_name(seg.name) = LINKEDIT
           off    == wrapping_sub(as_u64(min_off), seg.old_fileoff)
           addr   == IF linked THEN wrapping_add(seg.vmaddr, off) ELSE seg.vmaddr
           d      == data_and_offset_for_address(cache, addr)
           size   == IF linked THEN linkedit_extract_size ELSE layout.new_filesize
           r      == copy_payload(output_buf, d, size, layout.new_fileoff)
           short  == ~Le(wrapping_add(d.offset, size), d.len)
       IN  IF linked /\ overflow_checks /\
              (sub_overflows(as_u64(min_off), seg.old_fileoff)
               \/ add_overflows(seg.vmaddr, off))
           THEN Panics("phase 6") /\ UNCHANGED <<output_buf, li>>
           ELSE IF ~linked /\ IsZero(layout.new_filesize)
           THEN li' = li + 1 /\ UNCHANGED <<pc, outcome, error, output_buf>>
           ELSE IF fault = "bus"
           THEN Fail("killed", "SIGBUS") /\ UNCHANGED <<output_buf, li>>
           ELSE IF d.panic
           THEN Panics("phase 6") /\ UNCHANGED <<output_buf, li>>
           ELSE IF ~d.some
           THEN IF linked
                THEN Returns(fault, "Could not resolve LINKEDIT data address in cache")
                     /\ UNCHANGED <<output_buf, li>>
                ELSE IF stderr # "ok"
                THEN Eprintln(stderr) /\ UNCHANGED <<output_buf, li>>
                ELSE li' = li + 1 /\ UNCHANGED <<pc, outcome, error, output_buf>>
           ELSE IF r.panic
           THEN Panics("phase 6") /\ UNCHANGED <<output_buf, li>>
           ELSE IF short /\ stderr # "ok"
           THEN /\ Eprintln(stderr)
                /\ output_buf' = r.out
                /\ UNCHANGED li
           ELSE /\ output_buf' = r.out
                /\ li' = li + 1
                /\ UNCHANGED <<pc, outcome, error>>
    /\ UNCHANGED <<overflow_checks, cache, output, buf, ncmds, segments, linkedit_bounds,
                   min_off, max_end, linkedit_extract_size, layouts,
                   linkedit_new_fileoff, total_size, file>>

\* A variant that lays the header down before the payloads instead of after.
Overlay_first ==
    /\ pc = "copy"
    /\ li > Len(layouts)
    /\ IF Lt(output_buf.len, U64(Len(buf)))
       THEN Panics("range end index out of range") /\ UNCHANGED output_buf
       ELSE /\ output_buf' = [output_buf EXCEPT !.writes =
                                <<[dst |-> U64(0), n |-> U64(Len(buf)), from |-> "buf",
                                   bytes |-> buf]>> \o @]
            /\ pc' = "create"
            /\ UNCHANGED <<outcome, error>>
    /\ UNCHANGED <<overflow_checks, cache, output, buf, ncmds, segments, linkedit_bounds,
                   min_off, max_end, linkedit_extract_size, layouts,
                   linkedit_new_fileoff, total_size, li, file>>

\* output_buf[..buf.len()].copy_from_slice(&buf)
Overlay ==
    /\ pc = "copy"
    /\ li > Len(layouts)
    /\ IF Lt(output_buf.len, U64(Len(buf)))
       THEN Panics("range end index out of range") /\ UNCHANGED output_buf
       ELSE /\ output_buf' = [output_buf EXCEPT !.writes = Append(@,
                                [dst |-> U64(0), n |-> U64(Len(buf)), from |-> "buf",
                                 bytes |-> buf])]
            /\ pc' = "create"
            /\ UNCHANGED <<outcome, error>>
    /\ UNCHANGED <<overflow_checks, cache, output, buf, ncmds, segments, linkedit_bounds,
                   min_off, max_end, linkedit_extract_size, layouts,
                   linkedit_new_fileoff, total_size, li, file>>

\* The output path: the argument, or the file name of dylib_path
\* ("extracted.dylib" when the path has none).
output_path ==
    IF output # "none" THEN output
    ELSE IF dylib_path = "/usr/lib/libfoo.dylib" THEN "libfoo.dylib"
    ELSE "extracted.dylib"

\* let output_path = ...to_string(); File::create(&output_path)?
\* to_string allocates before the file is created, the boxing of the
\* error after the creation has failed.
CreateFile ==
    /\ pc = "create"
    /\ \E io_ok \in BOOLEAN, fault \in {"none", "abort"} :
         IF io_ok /\ fault = "none"
         THEN /\ file' = [created |-> TRUE, path |-> output_path, len_from |-> U64(0),
                          len_to |-> U64(0), writes |-> << >>]
              /\ pc' = "write"
              /\ UNCHANGED <<outcome, error>>
         ELSE Returns(fault, "io: create") /\ UNCHANGED file
    /\ UNCHANGED <<overflow_checks, cache, output, buf, ncmds, segments, linkedit_bounds,
                   min_off, max_end, linkedit_extract_size, layouts,
                   linkedit_new_fileoff, total_size, output_buf, li>>

\* f.write_all(&output_buf)?; eprintln!("Extracted ..."); Ok(())
\* The file's length is kept as the range len_from..len_to it lies in.  A
\* write_all that fails has written the leading bytes the system accepted
\* before it refused: any count from none to all but one.  The refusal is
\* the end of the process, where the system signals a file size limit
\* (SIGXFSZ) and the signal is not ignored, or an io::Error, which the ?
\* boxes (an allocation) and returns.  The closing message is written to
\* stderr with the file complete.
WriteFile ==
    /\ pc = "write"
    /\ \E io_ok \in BOOLEAN, stderr \in StderrWrites, signal \in BOOLEAN,
          fault \in {"none", "abort"} :
         IF io_ok \/ IsZero(output_buf.len)
         THEN /\ file' = [file EXCEPT !.len_from = output_buf.len, !.len_to = output_buf.len,
                                      !.writes = output_buf.writes]
              /\ IF stderr = "ok"
                 THEN pc' = "done" /\ outcome' = "ok" /\ UNCHANGED error
                 ELSE Eprintln(stderr)
         ELSE /\ file' = [file EXCEPT !.len_from = U64(0),
                                      !.len_to = wrapping_sub(output_buf.len, U64(1)),
                                      !.writes = output_buf.writes]
              /\ IF signal THEN Fail("killed", "SIGXFSZ") ELSE Returns(fault, "io: write")
    /\ UNCHANGED <<overflow_checks, cache, output, buf, ncmds, segments, linkedit_bounds,
                   min_off, max_end, linkedit_extract_size, layouts,
                   linkedit_new_fileoff, total_size, output_buf, li>>

--------------------------------------------------------------------------
(* The caches and images the extractor is run on.  The command streams    *)
(* are made of whole structures (a segment command is followed by nsects  *)
(* sections, cmdsize is the size of the record) with field values that    *)
(* range up to the ends of their types; OverrunImages are the streams     *)
(* whose cmdsize, ncmds or sizeofcmds do not fit.                         *)

\* One main cache file holding __TEXT and __LINKEDIT, one subcache holding
\* __DATA.
TextAddr == H64(0, 1, 32768, 32768)
DataAddr == H64(0, 1, 49152, 0)
LinkAddr == H64(0, 1, 57344, 0)
TextOff == U64(32768)
DataOff == U64(262144)
LinkOff == U64(1048576)
DATA == <<95, 95, 68, 65, 84, 65>>

\* Offsets inside the cache's __LINKEDIT, as the u32 fields hold them.
Off1 == H32(16, 4096)
Off2 == H32(16, 8192)
Off3 == H32(16, 12288)

Text(filesize, sects) == MkSegment(TEXT, TextAddr, U64(16384), TextOff, filesize, sects)
Data(filesize, sects) == MkSegment(DATA, DataAddr, U64(32768), DataOff, filesize, sects)
Link == MkSegment(LINKEDIT, LinkAddr, U64(131072), LinkOff, U64(131072), << >>)
Link2 ==
    MkSegment(LINKEDIT, H64(0, 1, 57345, 0), U64(65536), H64(0, 0, 17, 0), U64(4096), << >>)
BaseSymtab == MkSymtab(Off1, U32(16), Off2, U32(4096))

\* The sections the images carry: every section type the patcher tells
\* apart, offsets that are zero, inside the segment and before it, and
\* relocation offsets.
TextSections ==
    << MkSection(<<95, 95, 116, 101, 120, 116>>, TEXT, H32(0, 33024), U32(0),
                 <<0, 4, 0, 128>>) >>
DataSectionKinds ==
    << MkSection(<<95, 95, 100, 97, 116, 97>>, DATA, H32(4, 256), U32(0), U32(0)),
       MkSection(<<95, 95, 98, 115, 115>>, DATA, U32(0), U32(0), S_ZEROFILL),
       MkSection(<<95, 95, 104, 117, 103, 101>>, DATA, H32(4, 4096), U32(0), S_GB_ZEROFILL),
       MkSection(<<95, 95, 110, 117, 108, 108>>, DATA, U32(0), U32(0), U32(0)),
       MkSection(<<95, 95, 108, 111, 119>>, DATA, U32(256), U32(0), U32(0)),
       MkSection(<<95, 95, 116, 98, 115, 115>>, DATA, H32(4, 8192), U32(0),
                 <<18, 0, 0, 128>>),
       MkSection(<<95, 95, 114, 101, 108>>, DATA, H32(4, 512), H32(16, 6144),
                 <<0, 4, 0, 128>>),
       MkSection(<<95, 95, 122, 114>>, DATA, H32(4, 768), H32(16, 6144), <<1, 3, 0, 0>>) >>

FlagValues ==
    {U32(0), MH_DYLIB_IN_CACHE, <<133, 0, 32, 128>>, <<133, 0, 32, 0>>,
     <<255, 255, 255, 255>>, <<255, 255, 255, 127>>}
MagicValues == {MH_MAGIC_64, <<206, 250, 237, 254>>, <<254, 237, 250, 207>>, U32(0)}

BaseImage == MkImage(MH_MAGIC_64, <<133, 0, 32, 128>>, <<Text(U64(16384), << >>), Link, BaseSymtab>>)
ThreeSegments ==
    MkImage(MH_MAGIC_64, <<133, 0, 32, 128>>,
            <<Text(U64(16384), TextSections), Data(U64(12288), << >>), Link, BaseSymtab>>)

\* Headers: every magic and every flags value.
HeaderImages ==
    {MkImage(m, f, <<Text(U64(16384), << >>), Link, BaseSymtab>>) :
        m \in MagicValues, f \in FlagValues}

\* Segment orders and sizes.
Orders ==
    {<<"T", "D", "L">>, <<"T", "L", "D">>, <<"D", "T", "L">>, <<"D", "L", "T">>,
     <<"L", "T", "D">>, <<"L", "D", "T">>, <<"D", "L">>, <<"T", "T", "L">>}
SegmentOf(tag, tsize, dsize) ==
    CASE tag = "T" -> Text(tsize, TextSections)
      [] tag = "D" -> Data(dsize, <<DataSectionKinds[1]>>)
      [] tag = "L" -> Link
OrderImages ==
    {MkImage(MH_MAGIC_64, MH_DYLIB_IN_CACHE,
             [k \in 1..Len(o) |-> SegmentOf(o[k], tsize, dsize)] \o <<BaseSymtab>>) :
        o \in Orders, tsize \in {U64(16384), U64(4096)},
        dsize \in {U64(0), U64(12288), U64(20480)}}

\* Sections.
SectionImages ==
    {MkImage(MH_MAGIC_64, MH_DYLIB_IN_CACHE,
             <<Text(U64(16384), TextSections), Data(U64(12288), sects), Link, BaseSymtab>>) :
        sects \in {<<DataSectionKinds[k]>> : k \in 1..Len(DataSectionKinds)}
                  \cup {DataSectionKinds, SubSeq(DataSectionKinds, 1, 3)}}

\* The commands that point into __LINKEDIT: for each (offset, size) pair, the
\* four cases of the patch rule.
PairKinds == << <<U32(0), U32(0)>>, <<U32(0), U32(3)>>, <<Off3, U32(0)>>, <<Off3, U32(3)>> >>
OnePair(n, pos, kind) == [k \in 1..n |-> IF k = pos THEN PairKinds[kind] ELSE PairKinds[1]]
LinkeditDataTags ==
    {LC_FUNCTION_STARTS, LC_DATA_IN_CODE, LC_CODE_SIGNATURE, LC_DYLD_EXPORTS_TRIE,
     LC_DYLD_CHAINED_FIXUPS}
LinkeditCommands ==
    {MkSymtab(symoff, nsyms, stroff, strsize) :
        symoff \in {U32(0), Off1}, nsyms \in {U32(0), U32(16)},
        stroff \in {U32(0), Off2}, strsize \in {U32(0), U32(4096)}}
    \cup {MkDysymtab(OnePair(6, pos, kind)) : pos \in 1..6, kind \in 2..4}
    \cup {MkDysymtab([k \in 1..6 |-> PairKinds[4]])}
    \cup {MkDyldInfo(cmd, OnePair(5, pos, kind)) :
            cmd \in {LC_DYLD_INFO, LC_DYLD_INFO_ONLY}, pos \in 1..5, kind \in 2..4}
    \cup {MkLinkeditData(cmd, PairKinds[kind][1], PairKinds[kind][2]) :
            cmd \in LinkeditDataTags, kind \in 1..4}
    \cup {MkUuid}
CommandImages ==
    {MkImage(MH_MAGIC_64, MH_DYLIB_IN_CACHE, <<Text(U64(16384), << >>), Link>> \o tail) :
        tail \in {<<c>> : c \in LinkeditCommands}
                 \cup {<<BaseSymtab, c>> : c \in LinkeditCommands}}

\* The number of __LINKEDIT segments: none, one, two.
LinkeditCountImages ==
    {MkImage(MH_MAGIC_64, MH_DYLIB_IN_CACHE, cmds) :
        cmds \in {<<Text(U64(16384), << >>), BaseSymtab>>,
                  <<Text(U64(16384), << >>), Data(U64(12288), << >>)>>,
                  <<Text(U64(16384), << >>), Link, Link2, BaseSymtab>>,
                  <<Text(U64(16384), << >>), Link2, Link, BaseSymtab>>,
                  <<Link, Link, BaseSymtab>>,
                  << >>}}

\* Command streams that do not fit the header's words: a cmdsize that runs
\* past the region (on the last command, on an earlier one), more commands
\* declared than present, a region cut short of its last command.
BaseCmds == <<Text(U64(16384), << >>), Link, BaseSymtab>>
Resized(cmd, cmdsize) == set(cmd, 0, LoadCommand, "cmdsize", U32(cmdsize))
OverrunImages ==
    {MkHeader(MH_MAGIC_64, MH_DYLIB_IN_CACHE, 3, 168)
        \o Concat(<<Text(U64(16384), << >>), Link, Resized(BaseSymtab, 256)>>),
     MkHeader(MH_MAGIC_64, MH_DYLIB_IN_CACHE, 3, 168)
        \o Concat(<<Resized(Text(U64(16384), << >>), 4096), Link, BaseSymtab>>),
     MkHeader(MH_MAGIC_64, MH_DYLIB_IN_CACHE, 3, 168)
        \o Concat(<<Text(U64(16384), << >>), Resized(Link, 92), BaseSymtab>>),
     MkHeader(MH_MAGIC_64, MH_DYLIB_IN_CACHE, 3, 168)
        \o Concat(<<Text(U64(16384), << >>), Resized(Link, 96), BaseSymtab>>),
     MkHeader(MH_MAGIC_64, MH_DYLIB_IN_CACHE, 4, 168) \o Concat(BaseCmds),
     MkHeader(MH_MAGIC_64, MH_DYLIB_IN_CACHE, 3, 160) \o Concat(BaseCmds),
     MkHeader(MH_MAGIC_64, MH_DYLIB_IN_CACHE, 3, 164) \o Concat(BaseCmds),
     MkHeader(MH_MAGIC_64, MH_DYLIB_IN_CACHE, 3, 100) \o Concat(BaseCmds),
     MkHeader(MH_MAGIC_64, MH_DYLIB_IN_CACHE, 3, 2097152) \o Concat(BaseCmds)}

\* Field values at the ends of their ranges.
ExtremeImages ==
    {MkImage(MH_MAGIC_64, MH_DYLIB_IN_CACHE, cmds) :
        cmds \in {<<Text(H64(0, 1, 0, 0), << >>), Link, BaseSymtab>>,
                  <<Text(H64(32768, 0, 0, 0), << >>), Link, BaseSymtab>>,
                  <<Text(U64(16384), << >>),
                    Data(<<1, 192, 255, 255, 255, 255, 255, 255>>, << >>), Link, BaseSymtab>>,
                  <<Text(U64(16384), << >>), Link, MkSymtab(Off1, H32(4096, 0), Off2, U32(4096))>>,
                  <<Text(U64(16384), << >>), Link,
                    MkSymtab(<<240, 255, 255, 255>>, U32(2), Off2, U32(4096))>>,
                  <<Text(U64(16384), << >>), Link, MkSymtab(U32(4096), U32(16), Off2, U32(4096))>>,
                  <<Text(U64(16384), << >>), Link,
                    MkSymtab(Off1, U32(16), Off2, <<0, 0, 0, 255>>)>>,
                  <<Text(<<1, 192, 255, 255, 255, 255, 255, 255>>, << >>),
                    Data(U64(12288), << >>), Link, BaseSymtab>>,
                  <<Text(U64(16384), << >>),
                    MkSegment(LINKEDIT, LinkAddr, U64(131072), H64(0, 1, 16, 0), U64(131072),
                              << >>)>>,
                  <<Text(U64(16384), << >>), Link,
                    MkSymtab(<<240, 255, 255, 255>>, U32(2), U32(0), U32(0))>>,
                  <<Text(U64(16384), << >>),
                    MkSegment(LINKEDIT, LinkAddr, U64(131072),
                              <<0, 240, 255, 255, 255, 255, 255, 255>>, U64(8192), << >>)>>,
                  <<Text(U64(16384), << >>),
                    MkSegment(DATA, DataAddr, U64(32768), H64(32768, 0, 0, 0), U64(12288),
                              << >>),
                    Link, BaseSymtab>>,
                  <<Text(H64(0, 0, 65535, 49152), << >>), Link,
                    MkSymtab(Off1, U32(16), H32(16, 20480), U32(4096))>>,
                  <<Link, MkSymtab(Off1, U32(1), U32(0), U32(0))>>}}

Images ==
    HeaderImages \cup OrderImages \cup SectionImages \cup CommandImages
    \cup LinkeditCountImages \cup OverrunImages \cup ExtremeImages

\* The cache around an image: complete, or with a mapping or the end of a
\* file missing, or without the image.
Variants ==
    {"full", "unlisted", "unmapped", "no_data", "no_linkedit", "short_data", "empty_data",
     "short_linkedit", "short_header", "short_commands", "cut_data", "cut_text",
     "wrap_data", "wrap_text"}

\* The start of a cache file, in the layout of dyld_cache_format.h: the
\* header (magic, mapping table offset and count, uuid, subcache table offset
\* and count, image table offset and count), then the tables at 0x1C8, 0x240
\* and 0x280 and the image path at 0x300, zero-filled up to 0x500.
CacheMagic == <<100, 121, 108, 100, 95, 118, 49, 32, 32, 32, 97, 114, 109, 54, 52, 0>>
CacheUuid(f) == [k \in 1..16 |-> 16 * f + k]
PadTo(bytes, n) == bytes \o Zeros(n - Len(bytes))
MappingInfo(m) == m.address \o m.size \o m.file_offset \o U32(3) \o U32(3)
ImageInfo(address, path_offset) == address \o U64(0) \o U64(0) \o U32(path_offset) \o U32(0)
\* A header of this size lists its subcaches as 24-byte entries: the uuid of
\* the subcache file and its vm offset.
SubcacheEntry(f) == CacheUuid(f) \o U64(0)
ImagePath(listed) ==
    <<47, 117, 115, 114, 47, 108, 105, 98, 47, 108, 105, 98>>
    \o (IF listed THEN <<102, 111, 111>> ELSE <<98, 97, 114>>)
    \o <<46, 100, 121, 108, 105, 98, 0>>

MkCacheHeader(f, maps, images, subs, path) ==
    LET head == CacheMagic \o U32(456) \o U32(Len(maps)) \o U32(0) \o U32(0)
                \o Zeros(56) \o CacheUuid(f) \o Zeros(288)
                \o U32(640) \o U32(Len(subs)) \o Zeros(48)
                \o U32(576) \o U32(Len(images))
    IN  PadTo(PadTo(PadTo(PadTo(head \o Concat([k \in 1..Len(maps) |-> MappingInfo(maps[k])]),
                                576)
                          \o Concat(images), 640)
                    \o Concat(subs), 768)
              \o path, 1280)

MkCache(bytes, variant) ==
    LET main == CASE variant = "short_linkedit" -> H64(0, 0, 16, 6144)
                  [] variant = "short_header" -> U64(32768 + 16)
                  [] variant = "short_commands" -> U64(32768 + 100)
                  [] variant = "cut_text" -> U64(4096)
                  [] OTHER -> U64(1310720)
        sub  == CASE variant = "short_data" -> U64(262144 + 4096)
                  [] variant = "empty_data" -> U64(262144)
                  [] variant = "cut_data" -> U64(4096)
                  [] OTHER -> U64(1310720)
        data == IF variant = "wrap_data"
                THEN [address |-> H64(0, 1, 49151, 61440), size |-> U64(69632),
                      file_offset |-> <<0, 255, 255, 255, 255, 255, 255, 255>>, file |-> 2]
                ELSE [address |-> DataAddr, size |-> U64(65536),
                      file_offset |-> DataOff, file |-> 2]
        text == IF variant = "wrap_text"
                THEN [address |-> H64(0, 1, 32768, 0), size |-> U64(262144),
                      file_offset |-> <<0, 128, 255, 255, 255, 255, 255, 255>>, file |-> 1]
                ELSE [address |-> H64(0, 1, 32768, 0), size |-> U64(262144),
                      file_offset |-> U64(0), file |-> 1]
        maps == << text,
                   data,
                   [address |-> LinkAddr, size |-> U64(131072),
                    file_offset |-> LinkOff, file |-> 1] >>
        drop == CASE variant = "unmapped" -> 1
                  [] variant = "no_data" -> 2
                  [] variant = "no_linkedit" -> 3
                  [] OTHER -> 0
        kept == IF drop = 0 THEN maps
                ELSE SubSeq(maps, 1, drop - 1) \o SubSeq(maps, drop + 1, 3)
        of(f) == SelectSeq(kept, LAMBDA m : m.file = f)
    IN  [image |-> [listed |-> variant # "unlisted", address |-> TextAddr, file |-> 1,
                    off |-> TextOff, bytes |-> bytes],
         files |-> << [len |-> main,
                       header |-> MkCacheHeader(1, of(1), <<ImageInfo(TextAddr, 768)>>,
                                                <<SubcacheEntry(2)>>,
                                                ImagePath(variant # "unlisted"))],
                      [len |-> sub,
                       header |-> MkCacheHeader(2, of(2), << >>, << >>, << >>)] >>,
         mappings |-> kept]

Inputs ==
    {<<im, "full", "none">> : im \in Images}
    \cup ({BaseImage, ThreeSegments} \X Variants \X {"none", "out.dylib"})

Init ==
    /\ overflow_checks \in BOOLEAN
    /\ \E in \in Inputs :
         /\ cache = MkCache(in[1], in[2])
         /\ output = in[3]
    /\ pc = "phase1"
    /\ outcome = "running"
    /\ error = ""
    /\ buf = << >>
    /\ ncmds = U64(0)
    /\ segments = << >>
    /\ linkedit_bounds = << >>
    /\ min_off = U32(0)
    /\ max_end = U32(0)
    /\ linkedit_extract_size = U64(0)
    /\ layouts = << >>
    /\ linkedit_new_fileoff = U64(0)
    /\ total_size = U64(0)
    /\ output_buf = [len |-> U64(0), writes |-> << >>]
    /\ li = 1
    /\ file = [created |-> FALSE]

Next ==
    \/ Phase1 \/ Phase2 \/ Phase3 \/ Phase4 \/ Phase5a \/ Phase5b \/ Phase5c
    \/ Allocate \/ CopySegment \/ Overlay \/ CreateFile \/ WriteFile

Spec == Init /\ [][Next]_vars

--------------------------------------------------------------------------
(* What the properties are stated over: the image as it lies in the       *)
(* cache, and the file that was written.                                  *)

source == cache.image.bytes
Extracted == pc = "done" /\ outcome = "ok"

\* Field f of the structure st at byte pos of the image in the cache, and
\* of the written file.
old_field(pos, st, f) == get(source, pos, st, f)
written(pos, n) == [k \in 1..n |-> output_byte(cache, file, U64(pos + k - 1))]
new_field(pos, st, f) == written(pos + FieldOff(st, f), FieldWidth(st, f))

\* The offsets of the load commands of the image: n commands from pos on,
\* each cmdsize after the one before.
RECURSIVE command_offsets(_, _, _)
command_offsets(b, pos, n) ==
    IF IsZero(n) \/ ~from_bytes_ok(b, pos, LoadCommand) THEN << >>
    ELSE <<pos>> \o command_offsets(b,
            position(wrapping_add(U64(pos), as_usize(get(b, pos, LoadCommand, "cmdsize"))),
                     Len(b)),
            wrapping_sub(n, U64(1)))

Commands ==
    LET offs == command_offsets(source, size_of(MachHeader64),
                                as_usize(old_field(0, MachHeader64, "ncmds")))
    IN  {offs[k] : k \in 1..Len(offs)}
SegmentCommands == {c \in Commands : old_field(c, LoadCommand, "cmd") = LC_SEGMENT_64}
IsLinkedit(c) == seg_name(old_field(c, SegmentCommand64, "segname")) = LINKEDIT
Sections(c) ==
    {c + size_of(SegmentCommand64) + i * size_of(Section64) :
        i \in {j \in 0..(Len(source) \div size_of(Section64)) :
                 /\ Lt(U64(j), as_usize(old_field(c, SegmentCommand64, "nsects")))
                 /\ c + size_of(SegmentCommand64) + (j + 1) * size_of(Section64)
                      <= Len(source)}}

\* The (offset, size or count) pairs that point into __LINKEDIT: the
\* command's offset and the triple of LinkeditFields.
LinkeditPairs ==
    UNION {LET fields == LinkeditFields(old_field(c, LoadCommand, "cmd"))
           IN  {<<c, fields[k]>> : k \in 1..Len(fields)} : c \in Commands}
PairStruct(p) == LinkeditStruct(old_field(p[1], LoadCommand, "cmd"))

\* x rounded up to a multiple of 0x4000 (modulo 2^64): x itself when its low
\* 14 bits are zero, else the next multiple.
AlignUp(x) ==
    IF x[1] = 0 /\ x[2] % 64 = 0 THEN x
    ELSE wrapping_add(<<0, x[2] - (x[2] % 64)>> \o SubSeq(x, 3, 8), U64(16384))

layout_end(l) == wrapping_add(l.new_fileoff, l.new_filesize)
NonLinkeditLayouts ==
    {k \in 1..Len(layouts) : seg_name(segments[layouts[k].seg_index].name) # LINKEDIT}

--------------------------------------------------------------------------
(* The properties.                                                        *)

\* C1: when an image is extracted, the new file offset of __LINKEDIT is the
\* largest end (new_fileoff + new_filesize) of the non-linkedit segments of
\* the layout, rounded up to 0x4000; whatever the order of the segments.
C1_LinkeditAfterAllSegments ==
    Extracted =>
        \A k \in NonLinkeditLayouts :
            /\ Le(layout_end(layouts[k]), layouts[Len(layouts)].new_fileoff)
            /\ (\A j \in NonLinkeditLayouts :
                    Le(layout_end(layouts[j]), layout_end(layouts[k])))
               => layouts[Len(layouts)].new_fileoff = AlignUp(layout_end(layouts[k]))

\* C2: the output buffer, and the file written from it, is as long as the
\* end of the last placed non-linkedit segment rounded up to 0x4000, plus
\* max_end - min_off (u64 and u32 arithmetic).
C2_TotalSize ==
    Extracted =>
        LET cursor == IF Len(layouts) > 1 THEN layout_end(layouts[Len(layouts) - 1])
                      ELSE U64(0)
        IN  /\ file.len_from = wrapping_add(AlignUp(cursor),
                                            as_u64(wrapping_sub(max_end, min_off)))
            /\ file.len_to = file.len_from
            /\ output_buf.len = file.len_from

\* An image with three segments whose second ends off a page boundary has
\* been extracted.
C2_Witness ==
    /\ Extracted
    /\ Len(layouts) = 3
    /\ layout_end(layouts[2])[2] % 64 # 0
    /\ ~IsZero(layouts[2].new_fileoff)

\* C3: an image is extracted only when exactly one of its segments is named
\* __LINKEDIT.
C3_ExactlyOneLinkedit ==
    Extracted => Cardinality({c \in SegmentCommands : IsLinkedit(c)}) = 1

\* C4: in the written file every field of a non-linkedit segment command
\* other than fileoff and filesize, vmaddr and vmsize among them, is as it
\* was in the cache, and fileoff and filesize are those of the layout.
C4_AddressesKept ==
    Extracted =>
        \A c \in SegmentCommands :
            ~IsLinkedit(c) =>
                \A f \in {"cmd", "cmdsize", "segname", "vmaddr", "vmsize", "maxprot",
                          "initprot", "nsects", "flags"} :
                    new_field(c, SegmentCommand64, f) = old_field(c, SegmentCommand64, f)

\* A non-linkedit segment whose file offset was rewritten, with a vmsize
\* different from its file size, has been extracted.
C4_Witness ==
    /\ Extracted
    /\ \E c \in SegmentCommands :
         /\ ~IsLinkedit(c)
         /\ new_field(c, SegmentCommand64, "fileoff") # old_field(c, SegmentCommand64, "fileoff")
         /\ old_field(c, SegmentCommand64, "vmsize") # old_field(c, SegmentCommand64, "filesize")
         /\ ~IsZero(old_field(c, SegmentCommand64, "vmaddr"))

\* C5: in the written file a section of a non-linkedit segment that is not
\* zerofill and has a non-zero offset keeps its offset relative to its
\* segment (in the 32 bits of the field); a zerofill section, and a section
\* with offset 0, keeps its offset field.
C5_SectionOffsets ==
    Extracted =>
        \A c \in SegmentCommands : \A s \in Sections(c) :
            ~IsLinkedit(c) =>
                LET old == old_field(s, Section64, "offset")
                    new == new_field(s, Section64, "offset")
                IN  IF ~is_zerofill(old_field(s, Section64, "flags")) /\ ~IsZero(old)
                    THEN wrapping_sub(new, as_u32(new_field(c, SegmentCommand64, "fileoff")))
                         = wrapping_sub(old, as_u32(old_field(c, SegmentCommand64, "fileoff")))
                    ELSE new = old

\* A segment that moved, with a section whose offset moved with it, a
\* zerofill section with a non-zero offset and a section with offset 0, has
\* been extracted.
C5_Witness ==
    /\ Extracted
    /\ \E c \in SegmentCommands :
         /\ ~IsLinkedit(c)
         /\ \E s \in Sections(c) :
              /\ ~is_zerofill(old_field(s, Section64, "flags"))
              /\ ~IsZero(old_field(s, Section64, "offset"))
              /\ new_field(s, Section64, "offset") # old_field(s, Section64, "offset")
         /\ \E s \in Sections(c) :
              /\ is_zerofill(old_field(s, Section64, "flags"))
              /\ ~IsZero(old_field(s, Section64, "offset"))
         /\ \E s \in Sections(c) :
              /\ ~is_zerofill(old_field(s, Section64, "flags"))
              /\ IsZero(old_field(s, Section64, "offset"))

\* C6: in the written file every pair whose offset and size were both
\* non-zero has its offset at or after linkedit_new_fileoff, and its end
\* (offset + bytes) at or before linkedit_new_fileoff + linkedit_extract_size.
C6_BlobsInsideSlice ==
    Extracted =>
        \A p \in LinkeditPairs :
            LET off   == new_field(p[1], PairStruct(p), p[2][1])
                bytes == wrapping_mul(as_u64(old_field(p[1], PairStruct(p), p[2][2])), p[2][3])
            IN  (~IsZero(old_field(p[1], PairStruct(p), p[2][1]))
                 /\ ~IsZero(old_field(p[1], PairStruct(p), p[2][2])))
                => /\ Le(linkedit_new_fileoff, as_u64(off))
                   /\ ~add_overflows(linkedit_new_fileoff, linkedit_extract_size)
                   /\ Le(wrapping_add(as_u64(off), bytes),
                         wrapping_add(linkedit_new_fileoff, linkedit_extract_size))

\* C7: in the written file, for every pair: an offset with a non-zero size
\* is new_base + (offset - min_off), an offset with size 0 is 0, an offset 0
\* is 0, and the size field is as it was.
C7_PatchRule ==
    Extracted =>
        \A p \in LinkeditPairs :
            LET old      == old_field(p[1], PairStruct(p), p[2][1])
                size     == old_field(p[1], PairStruct(p), p[2][2])
                new_base == as_u32(linkedit_new_fileoff)
            IN  /\ new_field(p[1], PairStruct(p), p[2][2]) = size
                /\ new_field(p[1], PairStruct(p), p[2][1]) =
                     IF ~IsZero(old) /\ ~IsZero(size)
                     THEN wrapping_add(new_base, wrapping_sub(old, min_off))
                     ELSE U32(0)

\* An image with a rebased pair, a stale offset, and a size without an
\* offset has been extracted.
C7_Witness ==
    /\ Extracted
    /\ \E p \in LinkeditPairs :
         /\ ~IsZero(old_field(p[1], PairStruct(p), p[2][1]))
         /\ ~IsZero(old_field(p[1], PairStruct(p), p[2][2]))
         /\ new_field(p[1], PairStruct(p), p[2][1]) # old_field(p[1], PairStruct(p), p[2][1])
    /\ \E p \in LinkeditPairs :
         /\ ~IsZero(old_field(p[1], PairStruct(p), p[2][1]))
         /\ IsZero(old_field(p[1], PairStruct(p), p[2][2]))
    /\ \E p \in LinkeditPairs :
         /\ IsZero(old_field(p[1], PairStruct(p), p[2][1]))
         /\ ~IsZero(old_field(p[1], PairStruct(p), p[2][2]))

\* C8: in the written header bit 31 of flags (MH_DYLIB_IN_CACHE) is 0 and
\* every other bit is as in the image's header.
C8_InCacheBitCleared ==
    Extracted =>
        LET old == old_field(0, MachHeader64, "flags")
            new == new_field(0, MachHeader64, "flags")
        IN  /\ new[4] < 128
            /\ new[4] = old[4] % 128
            /\ \A i \in 1..3 : new[i] = old[i]

\* An image whose flags have every bit set has been extracted.
C8_Witness ==
    Extracted /\ old_field(0, MachHeader64, "flags") = <<255, 255, 255, 255>>

\* The three conditions of C9, on the image as the cache holds it.
HeaderLocation == data_and_offset_for_address(cache, cache.image.address)
Available ==
    IF cache.image.listed /\ HeaderLocation.some /\ Le(HeaderLocation.offset, HeaderLocation.len)
    THEN wrapping_sub(HeaderLocation.len, HeaderLocation.offset)
    ELSE U64(0)
RegionEnd ==
    wrapping_add(U64(size_of(MachHeader64)),
                 as_usize(old_field(0, MachHeader64, "sizeofcmds")))
HeaderTruncated ==
    /\ cache.image.listed /\ HeaderLocation.some
    /\ Lt(Available, U64(size_of(MachHeader64)))
BadMagic ==
    /\ Le(U64(size_of(MachHeader64)), Available)
    /\ old_field(0, MachHeader64, "magic") # MH_MAGIC_64
CmdsizeOverrun ==
    /\ Le(U64(size_of(MachHeader64)), Available)
    /\ Le(RegionEnd, Available)
    /\ \E c \in Commands :
         Lt(RegionEnd,
            wrapping_add(U64(c), as_usize(old_field(c, LoadCommand, "cmdsize"))))

\* C9: when the header is truncated, the magic is not MH_MAGIC_64, or a
\* command's cmdsize runs past the header + sizeofcmds bytes, the call ends
\* with an error returned to the caller.
C9_MalformedHeaderFails ==
    (pc = "done" /\ (HeaderTruncated \/ BadMagic \/ CmdsizeOverrun)) => outcome = "err"

\* The errors C10 names.
FatalErrors ==
    {"Image '/usr/lib/libfoo.dylib' not found in cache", "Address not found in any mapping",
     "Failed to parse Mach-O header", "Failed to parse load command",
     "No __LINKEDIT segment found", "Could not resolve LINKEDIT data address in cache"}

\* C10: the output file exists only after every phase has completed: the
\* copy loop has run to its end and the header has been overlaid.  A run
\* that ends in one of the fatal errors has created no file; a run that has
\* created one ends in no other error than that of the write, and in no
\* other panic than that of the closing message, with the whole buffer
\* written.
C10_NoFileOnFatalError ==
    /\ file.created =>
          /\ pc \in {"write", "done"}
          /\ li = Len(layouts) + 1
          /\ output_buf.writes # << >>
          /\ output_buf.writes[Len(output_buf.writes)].from = "buf"
          /\ outcome = "err" => error = "io: write"
          /\ outcome = "panic" =>
                /\ error = "failed printing to stderr"
                /\ file.len_from = output_buf.len
                /\ file.len_to = output_buf.len
                /\ file.writes = output_buf.writes
    /\ (outcome = "err" /\ error \in FatalErrors) => ~file.created

\* A run that failed to resolve the __LINKEDIT address, after copying a
\* segment, has ended without a file.
C10_Witness ==
    /\ pc = "done"
    /\ error = "Could not resolve LINKEDIT data address in cache"
    /\ output_buf.writes # << >>
    /\ ~file.created

--------------------------------------------------------------------------
(* Payload problems of the segments outside __LINKEDIT.  The source of a    *)
(* segment is what the cache view returns for its vmaddr: a file, its      *)
(* length and an offset the view does not compare with that length.       *)

payload_source(k) == data_and_offset_for_address(cache, segments[layouts[k].seg_index].vmaddr)

PayloadProblem(k) ==
    LET layout == layouts[k]
        d      == payload_source(k)
    IN  /\ seg_name(segments[layout.seg_index].name) # LINKEDIT
        /\ ~IsZero(layout.new_filesize)
        /\ \/ ~d.some
           \/ add_overflows(d.offset, layout.new_filesize)
           \/ Lt(d.len, wrapping_add(d.offset, layout.new_filesize))

\* The bytes the source still holds from the returned offset on.
AvailableBytes(k) ==
    LET d == payload_source(k)
    IN  IF ~d.some \/ Lt(d.len, d.offset) THEN U64(0) ELSE wrapping_sub(d.len, d.offset)

\* Positions probed in the output range of layout k: the first and the last
\* byte of the part that can be copied and of the part that cannot.
CopiedProbes(k) ==
    LET nf == layouts[k].new_fileoff
        av == AvailableBytes(k)
    IN  IF IsZero(av) THEN {}
        ELSE {nf, wrapping_add(nf, wrapping_sub(av, U64(1)))}

UncopiedProbes(k) ==
    LET nf == layouts[k].new_fileoff
    IN  {wrapping_add(nf, AvailableBytes(k)),
         wrapping_add(nf, wrapping_sub(layouts[k].new_filesize, U64(1)))}

\* C11: a segment outside __LINKEDIT whose vmaddr is unresolved, or whose
\* source holds fewer than new_filesize bytes from the returned offset, never
\* stops the copy loop; the extraction succeeds with the available bytes
\* copied and the rest of the segment's range behind the header overlay zero.
C11_PayloadProblemNeverFails ==
    /\ (pc = "done" /\ outcome = "panic" /\ li <= Len(layouts)
        /\ error \in {"phase 6", "failed printing to stderr"}) => ~PayloadProblem(li)
    /\ Extracted =>
          \A k \in 1..Len(layouts) :
            PayloadProblem(k) =>
              /\ \A i \in CopiedProbes(k) :
                    Le(U64(Len(buf)), i) =>
                      output_byte(cache, file, i)
                        = DataByte(cache, payload_source(k).file,
                                   wrapping_add(payload_source(k).offset,
                                                wrapping_sub(i, layouts[k].new_fileoff)))
              /\ \A i \in UncopiedProbes(k) :
                    Le(U64(Len(buf)), i) => output_byte(cache, file, i) = 0

--------------------------------------------------------------------------
\* C12: the overlay of the patched header and commands is the last write to
\* the output buffer, after every payload copy; in every successful extraction
\* the first buf.len() bytes of the file are the patched buffer byte for byte.
C12_OverlayLast ==
    /\ pc \in {"create", "write"} \/ Extracted =>
          /\ output_buf.writes # << >>
          /\ LET last == output_buf.writes[Len(output_buf.writes)]
             IN  /\ last.from = "buf"
                 /\ last.dst = U64(0)
                 /\ last.bytes = buf
          /\ \A k \in 1..(Len(output_buf.writes) - 1) : output_buf.writes[k].from = "cache"
    /\ Extracted =>
          /\ file.writes = output_buf.writes
          /\ \A i \in 0..(Len(buf) - 1) : output_byte(cache, file, U64(i)) = buf[i + 1]

\* A successful extraction where the __TEXT payload was copied to offset 0
\* over the whole header region, and the patched buffer differs there from
\* the header as it lies in the cache.
C12_Witness ==
    /\ Extracted
    /\ \E k \in 1..Len(file.writes) :
          /\ file.writes[k].from = "cache"
          /\ file.writes[k].dst = U64(0)
          /\ Le(U64(Len(buf)), file.writes[k].n)
    /\ \E i \in 1..Len(buf) : buf[i] # source[i]
    /\ \A i \in 0..(Len(buf) - 1) : output_byte(cache, file, U64(i)) = buf[i + 1]

--------------------------------------------------------------------------
(* The structure of the load-command stream.                              *)

RecognizedTags ==
    {LC_SEGMENT_64, LC_SYMTAB, LC_DYSYMTAB, LC_DYLD_INFO, LC_DYLD_INFO_ONLY,
     LC_FUNCTION_STARTS, LC_DATA_IN_CODE, LC_CODE_SIGNATURE, LC_DYLD_EXPORTS_TRIE,
     LC_DYLD_CHAINED_FIXUPS}

UnrecognizedCommands == {c \in Commands : old_field(c, LoadCommand, "cmd") \notin RecognizedTags}

command_size(c) ==
    position(as_usize(old_field(c, LoadCommand, "cmdsize")), Len(source))

\* C13: in the file of a successful extraction ncmds, sizeofcmds and every
\* command's (cmd, cmdsize) are those of the source image, and every byte of a
\* command whose tag is not one of the recognized ones is the source byte.
C13_CommandStreamKept ==
    Extracted =>
      /\ new_field(0, MachHeader64, "ncmds") = old_field(0, MachHeader64, "ncmds")
      /\ new_field(0, MachHeader64, "sizeofcmds") = old_field(0, MachHeader64, "sizeofcmds")
      /\ \A c \in Commands :
            /\ new_field(c, LoadCommand, "cmd") = old_field(c, LoadCommand, "cmd")
            /\ new_field(c, LoadCommand, "cmdsize") = old_field(c, LoadCommand, "cmdsize")
      /\ \A c \in UnrecognizedCommands :
            c + command_size(c) <= Len(source) =>
              written(c, command_size(c)) = SubSeq(source, c + 1, c + command_size(c))

\* A successful extraction of an image with an LC_UUID command behind a
\* patched LC_SYMTAB: the symtab offsets changed, the LC_UUID bytes did not.
C13_Witness ==
    /\ Extracted
    /\ \E c \in UnrecognizedCommands :
          /\ command_size(c) = 24
          /\ written(c, 24) = SubSeq(source, c + 1, c + 24)
    /\ \E p \in LinkeditPairs :
          new_field(p[1], PairStruct(p), p[2][1]) # old_field(p[1], PairStruct(p), p[2][1])
    /\ Cardinality(Commands) = 4

--------------------------------------------------------------------------
(* The layout planner.  The layouts before the last one are those of the  *)
(* segments outside __LINKEDIT; the cursor a layout was placed at is what  *)
(* the layout before it left.                                             *)

Planned == layouts # << >>

is_text(j) == seg_name(segments[layouts[j].seg_index].name) = TEXT

cursor_after(j) ==
    IF is_text(j) THEN segments[layouts[j].seg_index].old_filesize
    ELSE wrapping_add(layouts[j].new_fileoff, segments[layouts[j].seg_index].old_filesize)

cursor_before(j) == IF j = 1 THEN U64(0) ELSE cursor_after(j - 1)

IsPageMultiple(x) == x[1] = 0 /\ x[2] % 64 = 0

\* y is the smallest multiple of 0x4000 that is >= x.
SmallestPageMultiple(y, x) ==
    /\ IsPageMultiple(y)
    /\ Le(x, y)
    /\ Lt(wrapping_sub(y, x), PAGE_SIZE)

\* The layouts outside __LINKEDIT are those of the segments outside
\* __LINKEDIT, in load-command order, each with its old file size.
InCommandOrder ==
    LET n == Len(layouts) - 1
    IN  /\ {layouts[j].seg_index : j \in 1..n}
             = {i \in 1..Len(segments) : seg_name(segments[i].name) # LINKEDIT}
        /\ \A j \in 1..(n - 1) : layouts[j].seg_index < layouts[j + 1].seg_index
        /\ \A j \in 1..n :
              layouts[j].new_filesize = segments[layouts[j].seg_index].old_filesize

\* align_to at the values of the unit tests.
AlignPoints ==
    /\ align_to(U64(0), PAGE_SIZE).val = U64(0)
    /\ align_to(U64(1), PAGE_SIZE).val = PAGE_SIZE
    /\ align_to(PAGE_SIZE, PAGE_SIZE).val = PAGE_SIZE
    /\ align_to(U64(16385), PAGE_SIZE).val = U64(32768)

\* The cursor is low enough for a multiple of 0x4000 above it to exist in
\* 64 bits, and the segment's end fits 64 bits too.
FitsU64(j) ==
    /\ ~add_overflows(cursor_before(j), U64(16383))
    /\ ~add_overflows(layouts[j].new_fileoff, layouts[j].new_filesize)

\* C14 (as stated): the segments outside __LINKEDIT are placed in
\* load-command order, __TEXT at 0 and every other one at the smallest
\* multiple of 0x4000 that is >= the cursor, the cursor being the old file
\* size of __TEXT or the end new_fileoff + old_filesize of the segment before.
C14_PlannerAsStated ==
    Planned =>
      /\ InCommandOrder
      /\ AlignPoints
      /\ \A j \in 1..(Len(layouts) - 1) :
            /\ IF is_text(j) THEN layouts[j].new_fileoff = U64(0)
               ELSE SmallestPageMultiple(layouts[j].new_fileoff, cursor_before(j))
            /\ ~add_overflows(layouts[j].new_fileoff, layouts[j].new_filesize)
            /\ align_to(layouts[j].new_fileoff, PAGE_SIZE).val = layouts[j].new_fileoff

\* C14 (amended): the same, for every segment whose cursor is at most
\* 2^64 - 0x4000 and whose end fits 64 bits; the cursor is kept modulo 2^64.
C14_Planner ==
    Planned =>
      /\ InCommandOrder
      /\ AlignPoints
      /\ \A j \in 1..(Len(layouts) - 1) :
            /\ is_text(j) => layouts[j].new_fileoff = U64(0)
            /\ ~is_text(j) /\ FitsU64(j) =>
                  /\ SmallestPageMultiple(layouts[j].new_fileoff, cursor_before(j))
                  /\ align_to(layouts[j].new_fileoff, PAGE_SIZE).val = layouts[j].new_fileoff

\* The planner has placed a segment of file size 0 and, behind a cursor that
\* is not a multiple of 0x4000, a segment further up than the cursor.
C14_Witness ==
    /\ pc = "phase5a"
    /\ \E j \in 1..(Len(layouts) - 1) :
          /\ ~is_text(j)
          /\ IsZero(layouts[j].new_filesize)
          /\ FitsU64(j)
    /\ \E j \in 1..(Len(layouts) - 1) :
          /\ ~is_text(j)
          /\ FitsU64(j)
          /\ ~IsPageMultiple(cursor_before(j))
          /\ Lt(cursor_before(j), layouts[j].new_fileoff)

--------------------------------------------------------------------------
(* The linkedit range.  A pair is an offset field with its size or count  *)
(* field; its byte size is the count times the bytes per count, its end   *)
(* the offset plus the byte size, both as numbers of 64 bits.             *)

pair_off(p) == as_u64(old_field(p[1], PairStruct(p), p[2][1]))
pair_byte_size(p) == wrapping_mul(as_u64(old_field(p[1], PairStruct(p), p[2][2])), p[2][3])
pair_end(p) == wrapping_add(pair_off(p), pair_byte_size(p))

RecordedPairs == {p \in LinkeditPairs : ~IsZero(pair_off(p)) /\ ~IsZero(pair_byte_size(p))}

\* The first __LINKEDIT segment command of the image.
FirstLinkedit ==
    CHOOSE c \in SegmentCommands :
      IsLinkedit(c) /\ \A d \in SegmentCommands : IsLinkedit(d) => c <= d

\* C15: when phase 3 is through, min_off is the least off and max_end the
\* greatest off + byte_size over the pairs with both components non-zero, or
\* (old_fileoff, old_fileoff + old_filesize) of __LINKEDIT when there is no
\* such pair; min_off <= max_end and linkedit_extract_size = max_end - min_off.
C15_LinkeditRange ==
    pc = "phase4" =>
      /\ linkedit_bounds = << >> <=> RecordedPairs = {}
      /\ RecordedPairs # {} =>
            /\ \E p \in RecordedPairs : pair_off(p) = as_u64(min_off)
            /\ \A p \in RecordedPairs : Le(as_u64(min_off), pair_off(p))
            /\ \E p \in RecordedPairs : pair_end(p) = as_u64(max_end)
            /\ \A p \in RecordedPairs : Le(pair_end(p), as_u64(max_end))
      /\ RecordedPairs = {} =>
            /\ as_u64(min_off) = old_field(FirstLinkedit, SegmentCommand64, "fileoff")
            /\ as_u64(max_end)
                 = wrapping_add(old_field(FirstLinkedit, SegmentCommand64, "fileoff"),
                                old_field(FirstLinkedit, SegmentCommand64, "filesize"))
      /\ Le(min_off, max_end)
      /\ linkedit_extract_size = as_u64(wrapping_sub(max_end, min_off))

--------------------------------------------------------------------------
(* The __LINKEDIT segment command after patching.                         *)

\* The cursor the planner is left with behind the last segment outside
\* __LINKEDIT.
final_cursor == IF Len(layouts) > 1 THEN cursor_after(Len(layouts) - 1) ELSE U64(0)

linkedit_old(f) == old_field(FirstLinkedit, SegmentCommand64, f)
linkedit_patched(f) == get(buf, FirstLinkedit, SegmentCommand64, f)

\* C16: min_off is not below the old fileoff of __LINKEDIT; once patched,
\* the __LINKEDIT segment command has fileoff = align_up(cursor, 0x4000),
\* vmaddr = old vmaddr + (min_off - old fileoff) and filesize = vmsize =
\* linkedit_extract_size; the slice is copied from where the cache view
\* resolves that vmaddr.
C16_LinkeditCommand ==
    /\ pc \in {"phase4", "alloc"} => Le(linkedit_old("fileoff"), as_u64(min_off))
    /\ pc = "alloc" =>
          /\ linkedit_patched("fileoff") = AlignUp(final_cursor)
          /\ linkedit_patched("vmaddr")
               = wrapping_add(linkedit_old("vmaddr"),
                              wrapping_sub(as_u64(min_off), linkedit_old("fileoff")))
          /\ ~add_overflows(linkedit_old("vmaddr"),
                            wrapping_sub(as_u64(min_off), linkedit_old("fileoff")))
          /\ linkedit_patched("filesize") = linkedit_extract_size
          /\ linkedit_patched("vmsize") = linkedit_extract_size
    /\ Extracted =>
          LET d == data_and_offset_for_address(cache, linkedit_patched("vmaddr"))
              w == file.writes[Len(file.writes) - 1]
          IN  /\ Len(file.writes) >= 2
              /\ d.some
              /\ w.from = "cache"
              /\ w.dst = linkedit_patched("fileoff")
              /\ w.file = d.file
              /\ w.src = d.offset

====
